---- MODULE Spec2Model ----
(***************************************************************************)
(* The JPYC map application: the two registration wizards                  *)
(* (ShopRegistrationForm.tsx, OnlineMerchantRegistrationForm.tsx), the two *)
(* browse tabs (ShopsTab.tsx, OnlineMerchantsTab.tsx) and the page that    *)
(* mounts one of the four at a time (app/page.tsx).                        *)
(*                                                                         *)
(* The React state of the mounted wizard is step, formData, confirmed,     *)
(* submitting, submitted and error; that of the mounted browse tab is      *)
(* listings (its `shops` or `merchants`), loading, fetchError,             *)
(* userLocation and searchRadius (shops), searchQuery and                  *)
(* selectedServiceType (merchants).  The environment is the value of       *)
(* useAuth().user, the module-level supabase client (null when             *)
(* unconfigured), the external tables, and the calls that have been issued *)
(* and not yet answered.                                                   *)
(*                                                                         *)
(* Several specifications are given.  Spec is a wizard component on its    *)
(* own; the others are introduced where they are defined.  A specification *)
(* that does not mount a component leaves that component's variables at    *)
(* their idle values.                                                      *)
(*                                                                         *)
(* Strings are sequences of symbols.  The symbol " " is a whitespace       *)
(* character; every other symbol is a maximal run of non-whitespace        *)
(* characters ("Polygon", "a"); in the keyword filter of the merchants tab *)
(* every symbol is one character.  The Japanese literals of the source are *)
(* written in ASCII (TLA+ strings are ASCII); the comment next to each     *)
(* gives the literal.                                                      *)
(***************************************************************************)
EXTENDS Integers, Sequences, FiniteSets, TLC

VARIABLES
    kind,        \* which wizard component is mounted: "shop", "merchant" or NoForm
    step,        \* useState(1)
    formData,    \* useState(initialFormData)
    confirmed,   \* useState(false)
    submitting,  \* useState(false)
    submitted,   \* useState(false)
    error,       \* useState<string | null>(null)
    user,        \* useAuth().user: NoUser or the user's id
    supabase,    \* the module-level client: "client" or Null
    pending,     \* number of insert calls issued and not yet answered
    inserted,    \* the row passed to insert() by the step just taken, else NoRow
    geoPending,  \* shop: the getCurrentPosition request has not called back yet
    retreated,   \* history: the step and draft the last prevStep left, NoRetreat
                 \* once a field was edited or the step changed otherwise
    activeTab,   \* page.tsx: useState<TabType>('shops'); Alone without a page
    calls,       \* the rows of the mounted wizard's outstanding insert calls
    orphaned,    \* the rows of the outstanding insert calls of unmounted wizards
    store,       \* the external tables 'shops' and 'online_merchants'
    tab,         \* which browse tab is mounted: "shops", "online" or NoTab
    listings,    \* ShopsTab: useState<Shop[]>([]); OnlineMerchantsTab: merchants
    loading,     \* useState(true)
    fetchError,  \* useState<string | null>(null)
    fetching,    \* the select call of the mount effect has not been answered yet
    userLocation,\* ShopsTab: useState<Location | null>(null)
    locating,    \* ShopsTab: the getCurrentPosition request has not called back yet
    searchRadius,\* ShopsTab: useState(10), km
    searchQuery, \* OnlineMerchantsTab: useState('')
    selectedServiceType \* OnlineMerchantsTab: useState<string>('all')

\* the state the wizard handlers read and write
formVars == <<kind, step, formData, confirmed, submitting, submitted, error,
              user, supabase, pending, inserted, geoPending>>

histVars == <<retreated>>

\* the page and the external store
pageVars == <<activeTab, calls, orphaned, store>>

\* the state of the mounted browse tab
tabVars == <<tab, listings, loading, fetchError, fetching, userLocation, locating,
             searchRadius, searchQuery, selectedServiceType>>

vars == <<kind, step, formData, confirmed, submitting, submitted, error,
          user, supabase, pending, inserted, geoPending, retreated,
          activeTab, calls, orphaned, store,
          tab, listings, loading, fetchError, fetching, userLocation, locating,
          searchRadius, searchQuery, selectedServiceType>>

----------------------------------------------------------------------------
(* Values *)

Null == "null"                      \* JavaScript null (error slot, client)
NoUser == "no-user"                 \* useAuth().user === null
JsNull == <<"<null>">>              \* null in a row column that otherwise holds a string
NullList == <<JsNull>>              \* null in a row column that otherwise holds a list
NoRow == [table |-> "none"]         \* no insert() call was made by this step
NoForm == "none"                    \* no wizard component is mounted
NoTab == "none"                     \* no browse tab is mounted
Alone == "alone"                    \* the component is rendered without the page
NoLocation == <<>>                  \* userLocation === null
NoStore == [shops |-> <<>>, online_merchants |-> <<>>]
NoRetreat == [step |-> 0, formData |-> <<>>, returned |-> FALSE]

Str(s) == <<s>>                     \* a string without whitespace
Empty == <<>>                       \* ''
All == <<"all">>                    \* 'all', the service type option for every type

SONOTA == Str("sonota")             \* 'その他', the sentinel "other" option

\* ShopRegistrationForm.tsx
CATEGORIES == <<Str("cafe"), Str("restaurant"), Str("bar"), Str("shop"),
                Str("event-space"), SONOTA>>
    \* 'カフェ', 'レストラン', 'バー', 'ショップ', 'イベントスペース', 'その他'
JPYC_USE_CASES == <<Str("tentou-kessai"), Str("ticket-event"), Str("buppan"),
                    Str("nagesen-tip")>>
    \* '店頭決済', 'チケット・イベント代', '物販', '投げ銭 / チップ'
NETWORKS == <<Str("Polygon"), Str("Ethereum"), SONOTA>>
PAYMENT_METHODS == <<Str("wallet-soukin"), Str("QR-code-kessai"), Str("senyou-app")>>
    \* 'ウォレット送金', 'QRコード決済', '店舗側専用アプリ'

\* OnlineMerchantRegistrationForm.tsx
SERVICE_TYPES == <<Str("EC"), Str("subscription"), Str("NFT"), Str("game"),
                   Str("kifu"), SONOTA>>
    \* 'EC', 'サブスク', 'NFT', 'ゲーム', '寄付', 'その他'
MERCHANT_JPYC_USE_CASES == <<Str("kessai"), Str("charge"), Str("nagesen"),
                             Str("NFT-kounyuu"), Str("kaihi"), SONOTA>>
    \* '決済', 'チャージ', '投げ銭', 'NFT購入', '会費', 'その他'
PLATFORMS == <<Str("Web"), Str("smartphone-app"), Str("Discord"),
               Str("metaverse"), SONOTA>>
    \* 'Web', 'スマホアプリ', 'Discord', 'メタバース', 'その他'
TAG_SUGGESTIONS == <<Str("shopping"), Str("game"), Str("NFT"), Str("DeFi"),
                     Str("metaverse"), Str("kifu"), Str("subscription"),
                     Str("kyouiku"), Str("entame"), Str("kinyuu")>>
    \* 'ショッピング', 'ゲーム', 'NFT', 'DeFi', 'メタバース', '寄付', 'サブスク',
    \* '教育', 'エンタメ', '金融'

\* Coordinates are in units of 1e-4 degree.
DefaultLat == 356812                \* lat: 35.6812
DefaultLng == 1397671               \* lng: 139.7671

\* Error messages.
ErrConfirm == "kakunin-check"          \* '確認チェックを入れてください'
ErrLogin == "login-required"           \* 'ログインが必要です'
ErrSupabase == "supabase-unconfigured" \* 'Supabaseが設定されていません'
ErrSubmit == "touroku-shippai"         \* '登録に失敗しました。もう一度お試しください。'

----------------------------------------------------------------------------
(* JavaScript helpers *)

Range(s) == {s[i] : i \in 1..Len(s)}

Includes(list, v) == \E i \in 1..Len(list) : list[i] = v   \* Array.prototype.includes

Push(list, v) == Append(list, v)                           \* [...list, v] / push

\* list.filter((x) => x !== v)
RECURSIVE Without(_, _)
Without(list, v) ==
    IF list = <<>> THEN <<>>
    ELSE IF Head(list) = v THEN Without(Tail(list), v)
         ELSE <<Head(list)>> \o Without(Tail(list), v)

IsSpace(c) == c = " "

RECURSIVE TrimStart(_)
TrimStart(s) ==
    IF s # <<>> /\ IsSpace(Head(s)) THEN TrimStart(Tail(s)) ELSE s

RECURSIVE TrimEnd(_)
TrimEnd(s) ==
    IF s # <<>> /\ IsSpace(s[Len(s)]) THEN TrimEnd(SubSeq(s, 1, Len(s) - 1)) ELSE s

\* String.prototype.trim
Trim(s) == TrimEnd(TrimStart(s))

\* truthiness of a string: '' is falsy
Truthy(s) == s # <<>>

\* s || null
OrNull(s) == IF Truthy(s) THEN s ELSE JsNull

----------------------------------------------------------------------------
(* The drafts *)

\* ShopRegistrationForm.tsx: initialFormData
ShopInitialFormData ==
    [name |-> Empty, address |-> Empty, category |-> Empty,
     lat |-> DefaultLat, lng |-> DefaultLng,
     jpycUseCases |-> <<>>, jpycUseCaseOther |-> Empty,
     networks |-> <<>>, networkOther |-> Empty,
     paymentMethod |-> Empty, url |-> Empty, twitter |-> Empty, note |-> Empty]

\* OnlineMerchantRegistrationForm.tsx: initialFormData
MerchantInitialFormData ==
    [name |-> Empty, url |-> Empty, description |-> Empty,
     serviceType |-> Empty, serviceTypeOther |-> Empty, country |-> Empty,
     jpycUseCase |-> Empty, jpycUseCaseOther |-> Empty,
     platforms |-> <<>>, platformOther |-> Empty,
     tags |-> <<>>, customTag |-> Empty]

initialFormData(k) ==
    IF k = "shop" THEN ShopInitialFormData ELSE MerchantInitialFormData

----------------------------------------------------------------------------
(* Validation.  Each function returns the message it passes to setError,   *)
(* Null when the step is valid (setError(null); return true).              *)

\* ShopValidateStep1 testing `!formData.name` without trim()
ShopValidateStep1NoTrim(fd) ==
    IF ~Truthy(fd.name) THEN "shop-name-required"
    ELSE IF ~Truthy(Trim(fd.address)) THEN "address-required"
    ELSE IF ~Truthy(fd.category) THEN "category-required"
    ELSE Null

ShopValidateStep1(fd) ==
    IF ~Truthy(Trim(fd.name)) THEN "shop-name-required"            \* '店舗名を入力してください'
    ELSE IF ~Truthy(Trim(fd.address)) THEN "address-required"      \* '住所を入力してください'
    ELSE IF ~Truthy(fd.category) THEN "category-required"          \* 'カテゴリを選択してください'
    ELSE Null

ShopValidateStep2(fd) ==
    IF Len(fd.jpycUseCases) = 0 /\ ~Truthy(Trim(fd.jpycUseCaseOther))
    THEN "usecase-required"                \* 'JPYCの使い方を1つ以上選択してください'
    ELSE IF Len(fd.networks) = 0 /\ ~Truthy(Trim(fd.networkOther))
    THEN "network-required"                \* '対応ネットワークを1つ以上選択してください'
    ELSE IF ~Truthy(fd.paymentMethod)
    THEN "payment-required"                \* '支払い方法を選択してください'
    ELSE Null

MerchantValidateStep1(fd) ==
    IF ~Truthy(Trim(fd.name)) THEN "service-name-required"         \* 'サービス名を入力してください'
    ELSE IF ~Truthy(Trim(fd.url)) THEN "url-required"              \* 'URLを入力してください'
    ELSE IF ~Truthy(fd.serviceType) THEN "service-type-required"   \* 'サービス種別を選択してください'
    ELSE Null

\* MerchantValidateStep2 testing the selected value even when it is the sentinel
MerchantValidateStep2NoResolve(fd) ==
    IF ~Truthy(Trim(fd.jpycUseCase))
    THEN "merchant-usecase-required"
    ELSE IF Len(fd.platforms) = 0
    THEN "platform-required"
    ELSE Null

MerchantValidateStep2(fd) ==
    LET useCase == IF fd.jpycUseCase = SONOTA THEN fd.jpycUseCaseOther
                   ELSE fd.jpycUseCase
    IN  IF ~Truthy(Trim(useCase))
        THEN "merchant-usecase-required"   \* 'JPYCの使い道を選択または入力してください'
        ELSE IF Len(fd.platforms) = 0
        THEN "platform-required"           \* 'プラットフォームを1つ以上選択してください'
        ELSE Null

validateStep1(k, fd) ==
    IF k = "shop" THEN ShopValidateStep1(fd) ELSE MerchantValidateStep1(fd)

validateStep2(k, fd) ==
    IF k = "shop" THEN ShopValidateStep2(fd) ELSE MerchantValidateStep2(fd)

----------------------------------------------------------------------------
(* The rows handleSubmit passes to insert() *)

\* ShopNetworks pushing the free text whenever it is non-blank
ShopNetworksAlwaysOther(fd) ==
    LET networks == Without(fd.networks, SONOTA)
    IN  IF Truthy(Trim(fd.networkOther))
        THEN Push(networks, Trim(fd.networkOther))
        ELSE networks

\* ShopRegistrationForm.tsx handleSubmit: const networks = ...
ShopNetworks(fd) ==
    LET networks == Without(fd.networks, SONOTA)
    IN  IF Includes(fd.networks, SONOTA) /\ Truthy(Trim(fd.networkOther))
        THEN Push(networks, Trim(fd.networkOther))
        ELSE networks

\* ShopRow with the selected use cases among the tags
ShopRowWithUseCases(fd, u) ==
    [table |-> "shops",
     name |-> Trim(fd.name),
     address |-> Trim(fd.address),
     lat |-> fd.lat,
     lng |-> fd.lng,
     jpyc_networks |-> ShopNetworks(fd),
     payment_methods |-> <<fd.paymentMethod>>,
     url |-> OrNull(Trim(fd.url)),
     tags |-> <<fd.category>> \o fd.jpycUseCases,
     status |-> "pending",
     created_by |-> u,
     upvotes |-> 0,
     downvotes |-> 0]

\* ShopRow with `url: formData.url.trim()`, without `|| null`
ShopRowEmptyUrl(fd, u) ==
    [table |-> "shops",
     name |-> Trim(fd.name),
     address |-> Trim(fd.address),
     lat |-> fd.lat,
     lng |-> fd.lng,
     jpyc_networks |-> ShopNetworks(fd),
     payment_methods |-> <<fd.paymentMethod>>,
     url |-> Trim(fd.url),
     tags |-> <<fd.category>>,
     status |-> "pending",
     created_by |-> u,
     upvotes |-> 0,
     downvotes |-> 0]

\* ShopRow submitting the listing as already approved
ShopRowApproved(fd, u) ==
    [table |-> "shops",
     name |-> Trim(fd.name),
     address |-> Trim(fd.address),
     lat |-> fd.lat,
     lng |-> fd.lng,
     jpyc_networks |-> ShopNetworks(fd),
     payment_methods |-> <<fd.paymentMethod>>,
     url |-> OrNull(Trim(fd.url)),
     tags |-> <<fd.category>>,
     status |-> "approved",
     created_by |-> u,
     upvotes |-> 0,
     downvotes |-> 0]

\* ShopRegistrationForm.tsx handleSubmit: supabase.from('shops').insert({...})
ShopRow(fd, u) ==
    [table |-> "shops",
     name |-> Trim(fd.name),
     address |-> Trim(fd.address),
     lat |-> fd.lat,
     lng |-> fd.lng,
     jpyc_networks |-> ShopNetworks(fd),
     payment_methods |-> <<fd.paymentMethod>>,
     url |-> OrNull(Trim(fd.url)),
     tags |-> <<fd.category>>,
     status |-> "pending",
     created_by |-> u,
     upvotes |-> 0,
     downvotes |-> 0]

\* OnlineMerchantRegistrationForm.tsx handleSubmit: const jpycUseCase = ...
MerchantUseCase(fd) ==
    IF fd.jpycUseCase = SONOTA THEN Trim(fd.jpycUseCaseOther) ELSE fd.jpycUseCase

\* OnlineMerchantRegistrationForm.tsx handleSubmit: const platforms = ...
MerchantPlatforms(fd) ==
    LET platforms == Without(fd.platforms, SONOTA)
    IN  IF Includes(fd.platforms, SONOTA) /\ Truthy(Trim(fd.platformOther))
        THEN Push(platforms, Trim(fd.platformOther))
        ELSE platforms

\* `【サービス種別補足】${...}` and `${description}\n\n${otherNote}`
NoteLabel == "[service-type-hosoku]"     \* '【サービス種別補足】', glued to the text that follows
Newline == "\n"

\* OnlineMerchantRegistrationForm.tsx handleSubmit: let description = ...
MerchantDescription(fd) ==
    LET description == Trim(fd.description)
        otherNote == <<NoteLabel>> \o Trim(fd.serviceTypeOther)
    IN  IF fd.serviceType = SONOTA /\ Truthy(Trim(fd.serviceTypeOther))
        THEN IF Truthy(description)
             THEN description \o <<Newline, Newline>> \o otherNote
             ELSE otherNote
        ELSE description

\* MerchantRow with `tags: formData.tags`, an empty list included
MerchantRowEmptyTags(fd, u) ==
    [table |-> "online_merchants",
     name |-> Trim(fd.name),
     url |-> Trim(fd.url),
     description |-> OrNull(MerchantDescription(fd)),
     service_type |-> fd.serviceType,
     country |-> OrNull(Trim(fd.country)),
     jpyc_use_case |-> MerchantUseCase(fd),
     platforms |-> MerchantPlatforms(fd),
     tags |-> fd.tags,
     status |-> "pending",
     created_by |-> u]

\* OnlineMerchantRegistrationForm.tsx handleSubmit: insert({...})
MerchantRow(fd, u) ==
    [table |-> "online_merchants",
     name |-> Trim(fd.name),
     url |-> Trim(fd.url),
     description |-> OrNull(MerchantDescription(fd)),
     service_type |-> fd.serviceType,
     country |-> OrNull(Trim(fd.country)),
     jpyc_use_case |-> MerchantUseCase(fd),
     platforms |-> MerchantPlatforms(fd),
     tags |-> IF Len(fd.tags) > 0 THEN fd.tags ELSE NullList,
     status |-> "pending",
     created_by |-> u]

InsertRow(k, fd, u) == IF k = "shop" THEN ShopRow(fd, u) ELSE MerchantRow(fd, u)

----------------------------------------------------------------------------
(* What the component renders.  A handler can run only when the element    *)
(* that carries it is rendered: `if (submitted) return <success panel>`    *)
(* comes first, then the panel of the current step and the navigation      *)
(* buttons.                                                                *)

ShopStep1Fields == {"name", "address", "category"}
ShopStep2Fields == {"jpycUseCaseOther", "networkOther", "paymentMethod", "url",
                    "twitter", "note"}
MerchantStep1Fields == {"name", "url", "description", "serviceType",
                        "serviceTypeOther", "country"}
MerchantStep2Fields == {"jpycUseCase", "jpycUseCaseOther", "platformOther", "customTag"}

\* InputRendered with the panels of steps 1 and 2 on screen at every step
InputRenderedAnyStep(name) ==
    /\ ~submitted
    /\ IF kind = "shop"
       THEN \/ name \in ShopStep1Fields
            \/ /\ name \in ShopStep2Fields
               /\ name = "networkOther" => Includes(formData.networks, SONOTA)
       ELSE \/ /\ name \in MerchantStep1Fields
               /\ name = "serviceTypeOther" => formData.serviceType = SONOTA
            \/ /\ name \in MerchantStep2Fields
               /\ name = "jpycUseCaseOther" => formData.jpycUseCase = SONOTA
               /\ name = "platformOther" => Includes(formData.platforms, SONOTA)

\* the <input>/<select>/<textarea> called `name` is on screen
InputRendered(name) ==
    /\ ~submitted
    /\ IF kind = "shop"
       THEN \/ step = 1 /\ name \in ShopStep1Fields
            \/ /\ step = 2
               /\ name \in ShopStep2Fields
               /\ name = "networkOther" => Includes(formData.networks, SONOTA)
       ELSE \/ /\ step = 1
               /\ name \in MerchantStep1Fields
               /\ name = "serviceTypeOther" => formData.serviceType = SONOTA
            \/ /\ step = 2
               /\ name \in MerchantStep2Fields
               /\ name = "jpycUseCaseOther" => formData.jpycUseCase = SONOTA
               /\ name = "platformOther" => Includes(formData.platforms, SONOTA)

\* the checkbox (or tag button) of `field` for `value` is on screen
CheckboxRendered(field, value) ==
    /\ ~submitted
    /\ step = 2
    /\ IF kind = "shop"
       THEN \/ field = "jpycUseCases" /\ Includes(JPYC_USE_CASES, value)
            \/ field = "networks" /\ Includes(NETWORKS, value)
       ELSE \/ field = "platforms" /\ Includes(PLATFORMS, value)
            \/ field = "tags" /\ Includes(TAG_SUGGESTIONS, value)

----------------------------------------------------------------------------
(* Handlers *)

\* handleInputChange: setFormData((prev) => ({ ...prev, [name]: value }))
HandleInputChange(name, value) ==
    /\ InputRendered(name)
    /\ formData[name] # value
    /\ formData' = [formData EXCEPT ![name] = value]
    /\ inserted' = NoRow
    /\ UNCHANGED <<kind, step, confirmed, submitting, submitted, error, user,
                   supabase, pending, geoPending>>

\* handleCheckboxChange's updater
Toggle(current, value) ==
    IF Includes(current, value) THEN Without(current, value) ELSE Push(current, value)

HandleCheckboxChange(field, value) ==
    /\ CheckboxRendered(field, value)
    /\ formData' = [formData EXCEPT ![field] = Toggle(formData[field], value)]
    /\ inserted' = NoRow
    /\ UNCHANGED <<kind, step, confirmed, submitting, submitted, error, user,
                   supabase, pending, geoPending>>

\* handleMapClick (shop).  The map is on screen at step 1 once leaflet is
\* loaded; mapReady gates nothing else and may become true right after mount.
HandleMapClick(lat, lng) ==
    /\ kind = "shop" /\ ~submitted /\ step = 1
    /\ <<formData.lat, formData.lng>> # <<lat, lng>>
    /\ formData' = [formData EXCEPT !.lat = lat, !.lng = lng]
    /\ inserted' = NoRow
    /\ UNCHANGED <<kind, step, confirmed, submitting, submitted, error, user,
                   supabase, pending, geoPending>>

\* the success callback of getCurrentPosition (shop mount effect)
GeolocationSuccess(lat, lng) ==
    /\ kind = "shop" /\ geoPending
    /\ geoPending' = FALSE
    /\ formData' = [formData EXCEPT !.lat = lat, !.lng = lng]
    /\ inserted' = NoRow
    /\ UNCHANGED <<kind, step, confirmed, submitting, submitted, error, user,
                   supabase, pending>>

\* the error callback of getCurrentPosition: the draft keeps its coordinate
GeolocationError ==
    /\ kind = "shop" /\ geoPending
    /\ geoPending' = FALSE
    /\ inserted' = NoRow
    /\ UNCHANGED <<kind, step, formData, confirmed, submitting, submitted, error,
                   user, supabase, pending>>

\* addCustomTag without the `!formData.tags.includes(...)` test
AddCustomTagNoDupCheck ==
    /\ kind = "merchant" /\ ~submitted /\ step = 2
    /\ formData' =
         IF Truthy(Trim(formData.customTag))
         THEN [formData EXCEPT !.tags = Push(formData.tags, Trim(formData.customTag)),
                               !.customTag = Empty]
         ELSE formData
    /\ inserted' = NoRow
    /\ UNCHANGED <<kind, step, confirmed, submitting, submitted, error, user,
                   supabase, pending, geoPending>>

\* merchant: addCustomTag (button, or Enter in the customTag input)
AddCustomTag ==
    /\ kind = "merchant" /\ ~submitted /\ step = 2
    /\ formData' =
         IF Truthy(Trim(formData.customTag))
            /\ ~Includes(formData.tags, Trim(formData.customTag))
         THEN [formData EXCEPT !.tags = Push(formData.tags, Trim(formData.customTag)),
                               !.customTag = Empty]
         ELSE formData
    /\ inserted' = NoRow
    /\ UNCHANGED <<kind, step, confirmed, submitting, submitted, error, user,
                   supabase, pending, geoPending>>

\* merchant: removeTag, on the chip of a tag that is no suggestion
RemoveTag(tag) ==
    /\ kind = "merchant" /\ ~submitted /\ step = 2
    /\ Includes(formData.tags, tag) /\ ~Includes(TAG_SUGGESTIONS, tag)
    /\ formData' = [formData EXCEPT !.tags = Without(formData.tags, tag)]
    /\ inserted' = NoRow
    /\ UNCHANGED <<kind, step, confirmed, submitting, submitted, error, user,
                   supabase, pending, geoPending>>

\* the confirmation checkbox of step 3: setConfirmed(e.target.checked)
SetConfirmed(checked) ==
    /\ ~submitted /\ step = 3
    /\ checked # confirmed
    /\ confirmed' = checked
    /\ inserted' = NoRow
    /\ UNCHANGED <<kind, step, formData, submitting, submitted, error, user,
                   supabase, pending, geoPending>>

\* nextStep validating the whole draft at step 1
NextStepChecksBoth ==
    /\ ~submitted /\ step < 3
    /\ IF step = 1
       THEN LET message == IF validateStep1(kind, formData) # Null
                           THEN validateStep1(kind, formData)
                           ELSE validateStep2(kind, formData)
            IN  /\ error' = message
                /\ step' = IF message = Null THEN 2 ELSE step
       ELSE IF step = 2
       THEN /\ error' = validateStep2(kind, formData)
            /\ step' = IF validateStep2(kind, formData) = Null THEN 3 ELSE step
       ELSE UNCHANGED <<step, error>>
    /\ inserted' = NoRow
    /\ UNCHANGED <<kind, formData, confirmed, submitting, submitted, user,
                   supabase, pending, geoPending>>

\* nextStep, on the button rendered while step < 3
NextStep ==
    /\ ~submitted /\ step < 3
    /\ IF step = 1
       THEN /\ error' = validateStep1(kind, formData)
            /\ step' = IF validateStep1(kind, formData) = Null THEN 2 ELSE step
       ELSE IF step = 2
       THEN /\ error' = validateStep2(kind, formData)
            /\ step' = IF validateStep2(kind, formData) = Null THEN 3 ELSE step
       ELSE UNCHANGED <<step, error>>
    /\ inserted' = NoRow
    /\ UNCHANGED <<kind, formData, confirmed, submitting, submitted, user,
                   supabase, pending, geoPending>>

\* prevStep without setError(null)
PrevStepKeepsError ==
    /\ ~submitted /\ step > 1
    /\ step' = step - 1
    /\ inserted' = NoRow
    /\ UNCHANGED <<kind, formData, confirmed, submitting, submitted, error, user,
                   supabase, pending, geoPending>>

\* prevStep, on the button rendered while step > 1
PrevStep ==
    /\ ~submitted /\ step > 1
    /\ error' = Null
    /\ step' = step - 1
    /\ inserted' = NoRow
    /\ UNCHANGED <<kind, formData, confirmed, submitting, submitted, user,
                   supabase, pending, geoPending>>

\* StartInsert without setSubmitting(true)
StartInsertNoFlag ==
    /\ UNCHANGED submitting
    /\ error' = Null
    /\ inserted' = InsertRow(kind, formData, user)
    /\ pending' = pending + 1

\* the start of an insert call, shared by the variants of handleSubmit below
StartInsert ==
    /\ submitting' = TRUE
    /\ error' = Null
    /\ inserted' = InsertRow(kind, formData, user)
    /\ pending' = pending + 1

RefuseSubmit(message) ==
    /\ error' = message
    /\ inserted' = NoRow
    /\ UNCHANGED <<submitting, pending>>

\* handleSubmit without the `if (!user)` return
HandleSubmitNoLoginCheck ==
    /\ ~submitted /\ ~(step < 3) /\ ~submitting
    /\ IF ~confirmed THEN RefuseSubmit(ErrConfirm)
       ELSE IF supabase = Null THEN RefuseSubmit(ErrSupabase)
       ELSE StartInsert
    /\ UNCHANGED <<kind, step, formData, confirmed, submitted, user, supabase,
                   geoPending>>

\* handleSubmit on a button without disabled={submitting}
HandleSubmitNotDisabled ==
    /\ ~submitted /\ ~(step < 3)
    /\ IF ~confirmed THEN RefuseSubmit(ErrConfirm)
       ELSE IF user = NoUser THEN RefuseSubmit(ErrLogin)
       ELSE IF supabase = Null THEN RefuseSubmit(ErrSupabase)
       ELSE StartInsert
    /\ UNCHANGED <<kind, step, formData, confirmed, submitted, user, supabase,
                   geoPending>>

\* handleSubmit on a button rendered at every step
HandleSubmitAnyStep ==
    /\ ~submitted /\ ~submitting
    /\ IF ~confirmed THEN RefuseSubmit(ErrConfirm)
       ELSE IF user = NoUser THEN RefuseSubmit(ErrLogin)
       ELSE IF supabase = Null THEN RefuseSubmit(ErrSupabase)
       ELSE StartInsert
    /\ UNCHANGED <<kind, step, formData, confirmed, submitted, user, supabase,
                   geoPending>>

\* handleSubmit up to its await, on the button rendered in place of the next
\* button when step is not below 3; the button is disabled while submitting.
HandleSubmit ==
    /\ ~submitted /\ ~(step < 3) /\ ~submitting
    /\ IF ~confirmed THEN RefuseSubmit(ErrConfirm)
       ELSE IF user = NoUser THEN RefuseSubmit(ErrLogin)
       ELSE IF supabase = Null THEN RefuseSubmit(ErrSupabase)
       ELSE StartInsert
    /\ UNCHANGED <<kind, step, formData, confirmed, submitted, user, supabase,
                   geoPending>>

InsertOutcomes == {"ok", "error", "throw"}
    \* { error: null }, { error: insertError }, a rejected promise

\* the continuation of handleSubmit without its finally block
InsertSettledNoFinally(outcome) ==
    /\ pending > 0
    /\ pending' = pending - 1
    /\ IF outcome = "ok"
       THEN /\ submitted' = TRUE
            /\ UNCHANGED <<error, submitting>>
       ELSE /\ error' = ErrSubmit
            /\ submitting' = FALSE
            /\ UNCHANGED submitted
    /\ inserted' = NoRow
    /\ UNCHANGED <<kind, step, formData, confirmed, user, supabase, geoPending>>

\* handleSubmit after its await: the answer of one outstanding insert call
InsertSettled(outcome) ==
    /\ pending > 0
    /\ pending' = pending - 1
    /\ IF outcome = "ok"
       THEN /\ submitted' = TRUE
            /\ UNCHANGED error
       ELSE /\ error' = ErrSubmit
            /\ UNCHANGED submitted
    /\ submitting' = FALSE
    /\ inserted' = NoRow
    /\ UNCHANGED <<kind, step, formData, confirmed, user, supabase, geoPending>>

\* resetForm without setConfirmed(false)
ResetFormKeepsConfirmed ==
    /\ submitted
    /\ formData' = initialFormData(kind)
    /\ step' = 1
    /\ submitted' = FALSE
    /\ error' = Null
    /\ inserted' = NoRow
    /\ UNCHANGED <<kind, confirmed, submitting, user, supabase, pending, geoPending>>

\* resetForm, on the button of the success panel
ResetForm ==
    /\ submitted
    /\ formData' = initialFormData(kind)
    /\ step' = 1
    /\ confirmed' = FALSE
    /\ submitted' = FALSE
    /\ error' = Null
    /\ inserted' = NoRow
    /\ UNCHANGED <<kind, submitting, user, supabase, pending, geoPending>>

\* the auth context delivers another user value (sign-in, sign-out)
AuthChange(u) ==
    /\ u # user
    /\ user' = u
    /\ inserted' = NoRow
    /\ UNCHANGED <<kind, step, formData, confirmed, submitting, submitted, error,
                   supabase, pending, geoPending>>

----------------------------------------------------------------------------
(* Inputs of the exploration *)

Users == {"u1"}

Blank == <<" ">>                    \* ' '
Padded(s) == <<" ", s, " ">>        \* ' s '

\* what the user types into, or selects in, the input called `name`
Typed(name) ==
    IF kind = "shop"
    THEN CASE name = "name" -> {Empty, Blank, Padded("cafe-a")}
           [] name = "address" -> {Empty, Str("tokyo")}
           [] name = "category" -> {Empty, CATEGORIES[1]}
           [] name = "jpycUseCaseOther" -> {Empty, Str("goods")}
           [] name = "networkOther" -> {Blank, Padded("Astar")}
           [] name = "paymentMethod" -> {Empty, PAYMENT_METHODS[2]}
           [] name = "url" -> {Empty, Str("https://shop")}
           [] name = "twitter" -> {Empty, Str("@shop")}
           [] OTHER -> {}
    ELSE CASE name = "name" -> {Empty, Blank, Padded("mall")}
           [] name = "url" -> {Empty, Str("https://mall")}
           [] name = "description" -> {Empty, Str("about")}
           [] name = "serviceType" -> {Empty, SERVICE_TYPES[1], SONOTA}
           [] name = "serviceTypeOther" -> {Empty, Str("rental")}
           [] name = "jpycUseCase" -> {Empty, MERCHANT_JPYC_USE_CASES[1], SONOTA}
           [] name = "jpycUseCaseOther" -> {Blank, Str("point")}
           [] name = "platformOther" -> {Empty, Padded("bot")}
           [] name = "customTag" -> {Empty, Padded("jpyc")}
           [] OTHER -> {}

InputNames == ShopStep1Fields \cup ShopStep2Fields
              \cup MerchantStep1Fields \cup MerchantStep2Fields

\* the checkboxes the user clicks
Ticked(field) ==
    CASE field = "jpycUseCases" -> {JPYC_USE_CASES[1]}
      [] field = "networks" -> {SONOTA}
      [] field = "platforms" -> {SONOTA}
      [] field = "tags" -> {}

CheckboxFields == {"jpycUseCases", "networks", "platforms", "tags"}

\* the tags whose chip the user may click
ShownTags == IF kind = "merchant" THEN Range(formData.tags) ELSE {}

\* where the user clicks the map, and what the geolocation source reports
ClickedPoints == {<<356900, 1397000>>}
ReportedPoints == {<<356900, 1397000>>}

----------------------------------------------------------------------------
(* Specification *)

\* the variables of what a specification does not model, at their idle values
NoHistory == retreated = NoRetreat

NoPage == activeTab = Alone /\ calls = <<>> /\ orphaned = <<>> /\ store = NoStore

NoBrowseTab ==
    /\ tab = NoTab /\ listings = <<>> /\ loading = FALSE /\ fetchError = Null
    /\ fetching = FALSE /\ userLocation = NoLocation /\ locating = FALSE
    /\ searchRadius = 10 /\ searchQuery = Empty /\ selectedServiceType = All

\* a step of the wizard alone
FormOnly == UNCHANGED <<histVars, pageVars, tabVars>>

\* Either component right after mount.  Each reads useAuth() itself and has
\* its own `if (!user)` branch, so the user value ranges over both cases.
Init ==
    /\ kind \in {"shop", "merchant"}
    /\ step = 1
    /\ formData = initialFormData(kind)
    /\ confirmed = FALSE
    /\ submitting = FALSE
    /\ submitted = FALSE
    /\ error = Null
    /\ user \in Users \cup {NoUser}
    /\ supabase \in {"client", Null}
    /\ pending = 0
    /\ inserted = NoRow
    /\ geoPending \in IF kind = "shop" THEN BOOLEAN ELSE {FALSE}
         \* navigator.geolocation is present or absent
    /\ NoHistory /\ NoPage /\ NoBrowseTab

Next ==
    \/ \E name \in InputNames : \E value \in Typed(name) :
           HandleInputChange(name, value) /\ FormOnly
    \/ \E field \in CheckboxFields : \E value \in Ticked(field) :
           HandleCheckboxChange(field, value) /\ FormOnly
    \/ \E p \in ClickedPoints : HandleMapClick(p[1], p[2]) /\ FormOnly
    \/ \E p \in ReportedPoints : GeolocationSuccess(p[1], p[2]) /\ FormOnly
    \/ GeolocationError /\ FormOnly
    \/ AddCustomTag /\ FormOnly
    \/ \E tag \in ShownTags : RemoveTag(tag) /\ FormOnly
    \/ \E checked \in BOOLEAN : SetConfirmed(checked) /\ FormOnly
    \/ NextStep /\ FormOnly
    \/ PrevStep /\ FormOnly
    \/ HandleSubmit /\ FormOnly
    \/ \E outcome \in InsertOutcomes : InsertSettled(outcome) /\ FormOnly
    \/ ResetForm /\ FormOnly
    \/ \E u \in Users \cup {NoUser} : AuthChange(u) /\ FormOnly

Spec == Init /\ [][Next]_vars

----------------------------------------------------------------------------
(* Properties *)

NonBlank(s) == \E i \in 1..Len(s) : s[i] # " "

FailedOutcomes == InsertOutcomes \ {"ok"}

\* an insert call is started by the step
InsertStarted == pending' > pending \/ inserted' # NoRow

\* C1: a handleSubmit step taken with confirmed false, with no user or with
\* no client issues no insert call, sets a message in the error slot, leaves
\* step at 3 and makes neither submitting nor submitted true.
C1_SubmitFailsFast ==
    [][(HandleSubmit /\ (~confirmed \/ user = NoUser \/ supabase = Null))
       => /\ ~InsertStarted
          /\ error' # Null
          /\ step = 3 /\ step' = 3
          /\ ~submitting' /\ ~submitted']_vars

C1_Witness ==
    /\ step = 3 /\ confirmed /\ user = NoUser /\ supabase # Null
    /\ error = ErrLogin /\ pending = 0 /\ ~submitting /\ ~submitted

\* C2: when the insert call of a submission fails (error returned or thrown)
\* the wizard is at step 3 with submitting and submitted false and the
\* generic message in the error slot, and the draft and the confirmed flag
\* are what they were.  The handler itself never writes the draft, the flag
\* or the step, so it ends at step 3 exactly when the wizard was still there.
C2_FailureReturnsToConfirm ==
    [][(\E outcome \in FailedOutcomes : InsertSettled(outcome))
       => /\ step' = 3 /\ ~submitting' /\ ~submitted'
          /\ error' = ErrSubmit
          /\ formData' = formData /\ confirmed' = confirmed]_vars

\* C3: a submission starts at step 3 with submitting false and makes
\* submitting true with the error cleared; submitted becomes true only in a
\* step that is the "ok" answer of an insert call, taken while submitting is
\* true; and submitting is false whenever submitted is true.
C3_SuccessPath ==
    [][/\ InsertStarted => step = 3 /\ ~submitting /\ submitting' /\ error' = Null
       /\ (~submitted /\ submitted') => submitting /\ pending > 0 /\ InsertSettled("ok")
       /\ submitted' => ~submitting']_vars

C3_Witness == submitted /\ ~submitting /\ step = 3 /\ error = Null

\* C4: when submitted turns true exactly one insert call was outstanding and
\* that step consumes it; while submitted is true no call is outstanding and
\* no step starts one.
C4_OneInsertPerSuccess ==
    [][/\ (~submitted /\ submitted') => pending = 1 /\ pending' = 0 /\ inserted' = NoRow
       /\ submitted => pending = 0 /\ ~InsertStarted]_vars

C4_Witness == submitted /\ pending = 0 /\ inserted = NoRow /\ confirmed

\* C5: an insert call is started only at step 3 with submitted false.
C5_SubmitOnlyFromConfirm ==
    [][InsertStarted => step = 3 /\ ~submitted]_vars

C5_Witness == inserted # NoRow /\ pending = 1 /\ step = 3 /\ kind = "shop"

\* the step-1 conditions as the claim words them
Step1Passes ==
    IF kind = "shop"
    THEN NonBlank(formData.name) /\ NonBlank(formData.address)
         /\ formData.category # Empty
    ELSE NonBlank(formData.name) /\ NonBlank(formData.url)
         /\ formData.serviceType # Empty

\* C6: nextStep at step 1 goes to step 2 with the error cleared when the
\* step-1 conditions hold, and otherwise stays at step 1 with a message in
\* the error slot.
C6_Step1Gate ==
    [][(NextStep /\ step = 1)
       => IF Step1Passes THEN step' = 2 /\ error' = Null
                         ELSE step' = 1 /\ error' # Null]_vars

C6_Witness ==
    /\ kind = "shop" /\ step = 1 /\ formData.name = Blank
    /\ error = "shop-name-required"

\* the step-2 conditions as the claim words them
Step2Passes ==
    IF kind = "shop"
    THEN /\ Len(formData.jpycUseCases) > 0 \/ NonBlank(formData.jpycUseCaseOther)
         /\ Len(formData.networks) > 0 \/ NonBlank(formData.networkOther)
         /\ formData.paymentMethod # Empty
    ELSE /\ NonBlank(IF formData.jpycUseCase = SONOTA
                     THEN formData.jpycUseCaseOther ELSE formData.jpycUseCase)
         /\ Len(formData.platforms) > 0

\* C7: nextStep at step 2 goes to step 3 with the error cleared when the
\* step-2 conditions hold, and otherwise stays at step 2 with a message in
\* the error slot.
C7_Step2Gate ==
    [][(NextStep /\ step = 2)
       => IF Step2Passes THEN step' = 3 /\ error' = Null
                         ELSE step' = 2 /\ error' # Null]_vars

C7_Witness ==
    /\ kind = "merchant" /\ step = 2
    /\ formData.jpycUseCase = SONOTA /\ formData.jpycUseCaseOther = Blank
    /\ Len(formData.platforms) > 0
    /\ error = "merchant-usecase-required"

\* C8: prevStep, from step 2 or 3, lowers step by one, sets the error slot
\* to null and leaves the draft as it is.
C8_PrevStep ==
    [][PrevStep
       => /\ step \in {2, 3}
          /\ step' = step - 1 /\ error' = Null /\ formData' = formData]_vars

C8_Witness ==
    /\ step = 2 /\ confirmed /\ error = Null /\ ~submitting /\ ~submitted
    /\ formData # initialFormData(kind)

\* every handler the user can trigger, resetForm excepted
WizardActionButReset ==
    \/ \E name \in InputNames : \E value \in Typed(name) : HandleInputChange(name, value)
    \/ \E field \in CheckboxFields : \E value \in Ticked(field) :
           HandleCheckboxChange(field, value)
    \/ \E p \in ClickedPoints : HandleMapClick(p[1], p[2])
    \/ AddCustomTag
    \/ \E tag \in ShownTags : RemoveTag(tag)
    \/ \E checked \in BOOLEAN : SetConfirmed(checked)
    \/ NextStep
    \/ PrevStep
    \/ HandleSubmit

\* C9: resetForm can be triggered only while submitted is true, no other
\* handler can be triggered then, and a step that leaves submitted = true
\* ends in the initial state of the wizard.
C9_SubmittedTerminal ==
    /\ [](ENABLED ResetForm => submitted)
    /\ [](submitted => ~ENABLED WizardActionButReset)
    /\ [][(submitted /\ ~submitted')
          => /\ step' = 1 /\ formData' = initialFormData(kind)
             /\ ~confirmed' /\ error' = Null]_vars

C9_Witness ==
    /\ submitted /\ confirmed /\ step = 2
    /\ formData # initialFormData(kind) /\ ENABLED ResetForm

\* C10: the row a step passes to insert has status "pending" and created_by
\* equal to the user of the state the step was taken in; a shop row also has
\* upvotes and downvotes 0.
C10_RowStatusAndOwner ==
    [][inserted' # NoRow
       => /\ inserted'.status = "pending"
          /\ user # NoUser /\ inserted'.created_by = user
          /\ kind = "shop" => inserted'.upvotes = 0 /\ inserted'.downvotes = 0]_vars

C10_Witness ==
    /\ inserted # NoRow /\ inserted.table = "online_merchants"
    /\ inserted.created_by = "u1" /\ submitting

----------------------------------------------------------------------------
(* SpecShape: a wizard at the confirmation step, for every draft of a      *)
(* bounded set.  A draft is at step 3 only after both validations have     *)
(* passed, so the drafts are those that pass them.  From there the user    *)
(* confirms, submits, goes back and forth, and edits one field of step 2.  *)

\* the text fields of a shop draft
ShapeShopName == {Padded("cafe-a")}
ShapeShopAddress == {<<" ", "1-2", " ", "tokyo", " ">>}      \* ' 1-2 tokyo '
ShapeShopCategory == {CATEGORIES[1], SONOTA}
ShapeShopLat == {DefaultLat, 356900}
ShapeShopUseCases == {<<>>, <<JPYC_USE_CASES[1]>>}
ShapeShopUseCaseOther == {Empty, Str("goods")}
ShapeShopNetworks == {<<>>, <<NETWORKS[1]>>, <<SONOTA>>, <<NETWORKS[1], SONOTA>>,
                      <<SONOTA, NETWORKS[2]>>}
ShapeShopNetworkOther == {Empty, Blank, Padded("Astar"), NETWORKS[1]}
ShapeShopUrl == {Empty, Blank, Padded("https://shop")}

ShapeShopDrafts ==
    {fd \in [name : ShapeShopName, address : ShapeShopAddress,
             category : ShapeShopCategory,
             lat : ShapeShopLat, lng : {DefaultLng},
             jpycUseCases : ShapeShopUseCases,
             jpycUseCaseOther : ShapeShopUseCaseOther,
             networks : ShapeShopNetworks, networkOther : ShapeShopNetworkOther,
             paymentMethod : {PAYMENT_METHODS[2]}, url : ShapeShopUrl,
             twitter : {Empty}, note : {Empty}] :
        ShopValidateStep1(fd) = Null /\ ShopValidateStep2(fd) = Null}

ShapeMerchantDescription == {Empty, Blank, Padded("about")}
ShapeMerchantServiceType == {SERVICE_TYPES[1], SONOTA}
ShapeMerchantServiceTypeOther == {Empty, Blank, Padded("rental")}
ShapeMerchantCountry == {Empty, Blank, Padded("JP")}
ShapeMerchantUseCase == {MERCHANT_JPYC_USE_CASES[1], SONOTA}
ShapeMerchantPlatforms == {<<PLATFORMS[1]>>, <<SONOTA>>, <<SONOTA, PLATFORMS[1]>>,
                           <<PLATFORMS[1], SONOTA, PLATFORMS[3]>>}
ShapeMerchantPlatformOther == {Empty, Blank, Padded("bot"), SONOTA}
ShapeMerchantTags == {<<>>, <<TAG_SUGGESTIONS[2], Str("jpyc")>>}

ShapeMerchantDrafts ==
    {fd \in [name : {Padded("mall")}, url : {Padded("https://mall")},
             description : ShapeMerchantDescription,
             serviceType : ShapeMerchantServiceType,
             serviceTypeOther : ShapeMerchantServiceTypeOther,
             country : ShapeMerchantCountry,
             jpycUseCase : ShapeMerchantUseCase,
             jpycUseCaseOther : {Padded("point")},
             platforms : ShapeMerchantPlatforms,
             platformOther : ShapeMerchantPlatformOther,
             tags : ShapeMerchantTags, customTag : {Empty}] :
        MerchantValidateStep1(fd) = Null /\ MerchantValidateStep2(fd) = Null}

ShapeDrafts(k) == IF k = "shop" THEN ShapeShopDrafts ELSE ShapeMerchantDrafts

\* the one field the user edits again after going back to step 2
ShapeTyped(name) ==
    IF kind = "shop"
    THEN IF name = "paymentMethod" THEN {Empty, PAYMENT_METHODS[2]} ELSE {}
    ELSE IF name = "jpycUseCase" THEN {Empty, MERCHANT_JPYC_USE_CASES[1]} ELSE {}

\* History of the last prevStep: the step and the draft it left, and whether
\* the nextStep that followed it has run.
Retreat == retreated' = [step |-> step, formData |-> formData, returned |-> FALSE]

Advance ==
    retreated' = IF retreated.step # 0 /\ ~retreated.returned
                 THEN [retreated EXCEPT !.returned = TRUE]
                 ELSE NoRetreat

Forget == retreated' = NoRetreat

ShapeInit ==
    /\ kind \in {"shop", "merchant"}
    /\ step = 3
    /\ formData \in ShapeDrafts(kind)
    /\ confirmed = FALSE
    /\ submitting = FALSE
    /\ submitted = FALSE
    /\ error = Null
    /\ user \in Users
    /\ supabase = "client"
    /\ pending = 0
    /\ inserted = NoRow
    /\ geoPending = FALSE
    /\ NoHistory /\ NoPage /\ NoBrowseTab

ShapeNext ==
    \/ \E name \in InputNames : \E value \in ShapeTyped(name) :
           HandleInputChange(name, value) /\ Forget /\ UNCHANGED <<pageVars, tabVars>>
    \/ \E checked \in BOOLEAN :
           SetConfirmed(checked) /\ UNCHANGED <<histVars, pageVars, tabVars>>
    \/ NextStep /\ Advance /\ UNCHANGED <<pageVars, tabVars>>
    \/ PrevStep /\ Retreat /\ UNCHANGED <<pageVars, tabVars>>
    \/ HandleSubmit /\ UNCHANGED <<histVars, pageVars, tabVars>>
    \/ \E outcome \in InsertOutcomes :
           InsertSettled(outcome) /\ UNCHANGED <<histVars, pageVars, tabVars>>

SpecShape == ShapeInit /\ [][ShapeNext]_vars

\* the answer of an outstanding insert call does arrive
SpecLive ==
    /\ ShapeInit /\ [][ShapeNext]_vars
    /\ WF_vars(\E outcome \in InsertOutcomes :
                   InsertSettled(outcome) /\ UNCHANGED <<histVars, pageVars, tabVars>>)

----------------------------------------------------------------------------
(* Properties of the rows *)

AllSpaces(s) == \A i \in 1..Len(s) : s[i] = " "

\* t is s without its leading and trailing whitespace
IsTrimOf(t, s) ==
    /\ t # <<>> => t[1] # " " /\ t[Len(t)] # " "
    /\ \E i \in 0..Len(s) :
          /\ i + Len(t) <= Len(s)
          /\ AllSpaces(SubSeq(s, 1, i))
          /\ SubSeq(s, i + 1, i + Len(t)) = t
          /\ AllSpaces(SubSeq(s, i + Len(t) + 1, Len(s)))

\* the substring of s that is s without its leading and trailing whitespace
Trimmed(s) ==
    CHOOSE t \in {SubSeq(s, i, j) : i \in 1..(Len(s) + 1), j \in 0..Len(s)} :
        IsTrimOf(t, s)

\* the trimmed text, absent (null) when the text is blank
TrimmedOrAbsent(s) == IF NonBlank(s) THEN Trimmed(s) ELSE JsNull

NotSentinel(v) == v # SONOTA

\* C12: the shop row passed to insert has the trimmed name and address of the
\* draft, the draft's coordinate, tags = [category], payment_methods =
\* [paymentMethod], and the trimmed url, null when the url is blank.
C12_ShopRowShape ==
    [][(inserted' # NoRow /\ kind = "shop")
       => /\ inserted'.name = Trimmed(formData.name)
          /\ inserted'.address = Trimmed(formData.address)
          /\ inserted'.lat = formData.lat /\ inserted'.lng = formData.lng
          /\ inserted'.tags = <<formData.category>>
          /\ inserted'.payment_methods = <<formData.paymentMethod>>
          /\ inserted'.url = TrimmedOrAbsent(formData.url)]_vars

C12_Witness ==
    /\ inserted # NoRow /\ inserted.table = "shops" /\ submitting
    /\ formData.url = Blank /\ inserted.url = JsNull
    /\ inserted.name = Str("cafe-a")
    /\ inserted.address = <<"1-2", " ", "tokyo">>
    /\ inserted.tags = <<CATEGORIES[1]>>
    /\ inserted.jpyc_networks = <<NETWORKS[1]>>
    /\ inserted.payment_methods = <<PAYMENT_METHODS[2]>>
    /\ inserted.lat = 356900

\* C13: the submitted jpyc_networks is the selection without the sentinel,
\* followed by the trimmed free text exactly when the sentinel is selected and
\* the free text is non-blank; in every other case no entry is added: the
\* list is no longer than the selection and holds selected networks only.
C13_NetworkOther ==
    [][(inserted' # NoRow /\ kind = "shop")
       => LET sent == inserted'.jpyc_networks
              selected == SelectSeq(formData.networks, NotSentinel)
          IN  IF Includes(formData.networks, SONOTA) /\ NonBlank(formData.networkOther)
              THEN sent = Append(selected, Trimmed(formData.networkOther))
              ELSE /\ Len(sent) <= Len(formData.networks)
                   /\ \A i \in 1..Len(sent) : Includes(formData.networks, sent[i])
                   /\ sent = selected]_vars

C13_Witness ==
    /\ inserted # NoRow /\ inserted.table = "shops"
    /\ formData.networks = <<SONOTA, NETWORKS[2]>>
    /\ formData.networkOther = Padded("Astar")
    /\ inserted.jpyc_networks = <<NETWORKS[2], Str("Astar")>>

\* C14: the submitted platforms never holds the sentinel; when the sentinel
\* is selected and platformOther is non-blank the trimmed platformOther is in
\* the list; and the other selected platforms are submitted unchanged, in
\* their order.
C14_PlatformOther ==
    [][(inserted' # NoRow /\ kind = "merchant")
       => LET sent == inserted'.platforms
              others == SelectSeq(formData.platforms, NotSentinel)
          IN  /\ ~Includes(sent, SONOTA)
              /\ (Includes(formData.platforms, SONOTA)
                    /\ NonBlank(formData.platformOther))
                   => Includes(sent, Trimmed(formData.platformOther))
              /\ SubSeq(sent, 1, Len(others)) = others]_vars

\* C15: the merchant row keeps service_type as selected; its description is
\* the trimmed description, followed by the labelled note (or the note alone
\* when the description is blank) when serviceType is the sentinel and
\* serviceTypeOther is non-blank; an empty description, a blank country and
\* an empty tags list are submitted as null.
C15_MerchantOptionalFields ==
    [][(inserted' # NoRow /\ kind = "merchant")
       => LET text == Trimmed(formData.description)
              note == <<NoteLabel>> \o Trimmed(formData.serviceTypeOther)
          IN  /\ inserted'.service_type = formData.serviceType
              /\ inserted'.description =
                   IF formData.serviceType = SONOTA
                      /\ NonBlank(formData.serviceTypeOther)
                   THEN IF text = Empty THEN note
                        ELSE text \o <<Newline, Newline>> \o note
                   ELSE IF text = Empty THEN JsNull ELSE text
              /\ inserted'.country = TrimmedOrAbsent(formData.country)
              /\ inserted'.tags = IF formData.tags = <<>> THEN NullList
                                  ELSE formData.tags]_vars

C15_Witness ==
    /\ inserted # NoRow /\ inserted.table = "online_merchants"
    /\ formData.serviceType = SONOTA
    /\ formData.description = Padded("about")
    /\ inserted.description = <<"about", Newline, Newline, NoteLabel, "rental">>
    /\ inserted.service_type = SONOTA
    /\ inserted.country = JsNull /\ inserted.tags = NullList

\* C17: once the nextStep that follows a prevStep has run, with no field
\* edited in between, the wizard is at the step the prevStep left and the
\* draft is the draft of that moment.
C17_RetreatAdvance ==
    retreated.returned => step = retreated.step /\ formData = retreated.formData

C17_Witness ==
    /\ retreated.returned /\ retreated.step = 2 /\ step = 2 /\ kind = "shop"
    /\ validateStep2(kind, formData) # Null

\* a started submission ends: submitting does not stay true
SubmissionSettles == submitting ~> ~submitting

\* C19: every started submission reaches submitting = false, and while the
\* message of a failed submission is shown the submit action is enabled.
C19_Retryable ==
    /\ SubmissionSettles
    /\ [](error = ErrSubmit => ~submitting /\ ~submitted /\ ENABLED HandleSubmit)

----------------------------------------------------------------------------
(* SpecTags: the merchant wizard from its mount, with the tag editor of    *)
(* step 2 exercised: suggestion buttons, the custom-tag buffer, the add    *)
(* button and the chips that remove a tag.                                 *)

TagsTyped(name) ==
    CASE name = "name" -> {Padded("mall")}
      [] name = "url" -> {Str("https://mall")}
      [] name = "serviceType" -> {SERVICE_TYPES[1]}
      [] name = "customTag" -> {Empty, Blank, Padded("jpyc"), Str("jpyc"),
                                Padded("game"), Str("web3")}
      [] OTHER -> {}

TagsTicked(field) ==
    IF field = "tags" THEN {TAG_SUGGESTIONS[2], TAG_SUGGESTIONS[3]} ELSE {}

TagsInit ==
    /\ kind = "merchant"
    /\ step = 1
    /\ formData = initialFormData(kind)
    /\ confirmed = FALSE
    /\ submitting = FALSE
    /\ submitted = FALSE
    /\ error = Null
    /\ user \in Users
    /\ supabase = "client"
    /\ pending = 0
    /\ inserted = NoRow
    /\ geoPending = FALSE
    /\ NoHistory /\ NoPage /\ NoBrowseTab

TagsNext ==
    \/ \E name \in InputNames : \E value \in TagsTyped(name) :
           HandleInputChange(name, value) /\ FormOnly
    \/ \E field \in CheckboxFields : \E value \in TagsTicked(field) :
           HandleCheckboxChange(field, value) /\ FormOnly
    \/ AddCustomTag /\ FormOnly
    \/ \E tag \in ShownTags : RemoveTag(tag) /\ FormOnly
    \/ NextStep /\ FormOnly
    \/ PrevStep /\ FormOnly

SpecTags == TagsInit /\ [][TagsNext]_vars

NoDuplicates(list) ==
    \A i \in 1..Len(list) : \A j \in 1..Len(list) : i # j => list[i] # list[j]

\* C16: addCustomTag appends the trimmed buffer to tags and clears the buffer
\* when the trimmed buffer is non-empty and not in tags, and otherwise leaves
\* both as they are; and tags never holds an entry twice.
C16_CustomTags ==
    /\ [][AddCustomTag
          => IF NonBlank(formData.customTag)
                /\ ~Includes(formData.tags, Trimmed(formData.customTag))
             THEN /\ formData'.tags = Append(formData.tags, Trimmed(formData.customTag))
                  /\ formData'.customTag = Empty
             ELSE /\ formData'.tags = formData.tags
                  /\ formData'.customTag = formData.customTag]_vars
    /\ [](kind = "merchant" => NoDuplicates(formData.tags))

C16_Witness ==
    /\ kind = "merchant" /\ step = 2
    /\ formData.tags = <<TAG_SUGGESTIONS[2], Str("jpyc"), Str("web3")>>
    /\ formData.customTag = Padded("game")
    /\ ~ENABLED (AddCustomTag /\ formData' # formData)

----------------------------------------------------------------------------
(* The browse tabs: ShopsTab.tsx and OnlineMerchantsTab.tsx *)

ErrFetchShops == "tenpo-data-shutoku-shippai"
    \* '店舗データの取得に失敗しました'
ErrFetchMerchants == "online-jigyousha-data-shutoku-shippai"
    \* 'オンライン事業者データの取得に失敗しました'

ErrFetch(t) == IF t = "shops" THEN ErrFetchShops ELSE ErrFetchMerchants

\* The places of the model, <<lat, lng>> in units of 1e-4 degree.
TokyoStation == <<DefaultLat, DefaultLng>>      \* { lat: 35.6812, lng: 139.7671 }
Shinjuku == <<356900, 1397000>>
Yokohama == <<354437, 1396380>>
Osaka == <<347025, 1354959>>

Places == {TokyoStation, Shinjuku, Yokohama, Osaka}

\* calculateDistance: the haversine formula with R = 6371 km.  The formula
\* needs sin, cos, atan2 and sqrt; its values at the places of the model are
\* tabulated, in metres (rounded down).
Haversine(p, q) ==
    CASE p = q -> 0
      [] {p, q} = {TokyoStation, Shinjuku} -> 6138
      [] {p, q} = {TokyoStation, Yokohama} -> 28875
      [] {p, q} = {TokyoStation, Osaka} -> 403058
      [] {p, q} = {Shinjuku, Yokohama} -> 27955
      [] {p, q} = {Shinjuku, Osaka} -> 397441
      [] {p, q} = {Yokohama, Osaka} -> 385820

calculateDistance(lat1, lng1, lat2, lng2) == Haversine(<<lat1, lng1>>, <<lat2, lng2>>)

\* searchRadius is in km, distances are in metres
Metres(km) == km * 1000

\* { ...shop, distance }
WithDistance(shop, d) ==
    [f \in DOMAIN shop \cup {"distance"} |-> IF f = "distance" THEN d ELSE shop[f]]

\* list.filter((shop) => shop.distance <= radius)
RECURSIVE WithinRadius(_, _)
WithinRadius(list, radius) ==
    IF list = <<>> THEN <<>>
    ELSE IF Head(list).distance <= Metres(radius)
         THEN <<Head(list)>> \o WithinRadius(Tail(list), radius)
         ELSE WithinRadius(Tail(list), radius)

\* Array.prototype.sort((a, b) => a.distance - b.distance), which is stable:
\* an element goes behind every element that does not compare greater.
RECURSIVE InsertByDistance(_, _)
InsertByDistance(sorted, x) ==
    IF sorted = <<>> THEN <<x>>
    ELSE IF Head(sorted).distance - x.distance > 0
         THEN <<x>> \o sorted
         ELSE <<Head(sorted)>> \o InsertByDistance(Tail(sorted), x)

RECURSIVE SortByDistanceFrom(_, _)
SortByDistanceFrom(sorted, rest) ==
    IF rest = <<>> THEN sorted
    ELSE SortByDistanceFrom(InsertByDistance(sorted, Head(rest)), Tail(rest))

SortByDistance(list) == SortByDistanceFrom(<<>>, list)

\* shops.map((shop) => ({ ...shop, distance: calculateDistance(...) }))
Annotated(list, location) ==
    [i \in 1..Len(list) |->
        WithDistance(list[i], calculateDistance(location.lat, location.lng,
                                                list[i].lat, list[i].lng))]

\* nearbyShops without the sort
NearbyUnsorted(list, location, radius) ==
    IF location = NoLocation THEN list
    ELSE WithinRadius(Annotated(list, location), radius)

\* the useMemo of nearbyShops
Nearby(list, location, radius) ==
    IF location = NoLocation THEN list
    ELSE SortByDistance(WithinRadius(Annotated(list, location), radius))

nearbyShops == Nearby(listings, userLocation, searchRadius)

\* The state of a browse tab once its mount effects have run.  With a client
\* the select call is outstanding; without one the dummy data is shown.
\* `capable` is the presence of navigator.geolocation.
MountedTab(t, client, dummy, capable) ==
    [tab |-> t,
     listings |-> IF client = Null THEN dummy ELSE <<>>,
     loading |-> client # Null,
     fetchError |-> Null,
     fetching |-> client # Null,
     userLocation |-> IF t = "shops" /\ ~capable
                      THEN [lat |-> DefaultLat, lng |-> DefaultLng]
                      ELSE NoLocation,
     locating |-> t = "shops" /\ capable,
     searchRadius |-> 10, searchQuery |-> Empty, selectedServiceType |-> All]

TabIs(m) ==
    /\ tab = m.tab /\ listings = m.listings /\ loading = m.loading
    /\ fetchError = m.fetchError /\ fetching = m.fetching
    /\ userLocation = m.userLocation /\ locating = m.locating
    /\ searchRadius = m.searchRadius /\ searchQuery = m.searchQuery
    /\ selectedServiceType = m.selectedServiceType

FetchOutcomes == {"data", "null", "error", "throw"}
    \* { data, error: null }, { data: null, error: null }, { data: null, error },
    \* a rejected promise

\* FetchSettled without the finally block
FetchSettledNoFinally(outcome, data) ==
    /\ tab # NoTab /\ fetching
    /\ fetching' = FALSE
    /\ IF outcome \in {"data", "null"}
       THEN /\ listings' = IF outcome = "null" THEN <<>> ELSE data
            /\ UNCHANGED fetchError
            /\ loading' = FALSE
       ELSE /\ fetchError' = ErrFetch(tab)
            /\ UNCHANGED <<listings, loading>>
    /\ UNCHANGED <<tab, userLocation, locating, searchRadius, searchQuery,
                   selectedServiceType>>

\* fetchShops / fetchMerchants after the await
FetchSettled(outcome, data) ==
    /\ tab # NoTab /\ fetching
    /\ fetching' = FALSE
    /\ IF outcome \in {"data", "null"}
       THEN /\ listings' = IF outcome = "null" THEN <<>> ELSE data   \* data || []
            /\ UNCHANGED fetchError
       ELSE /\ fetchError' = ErrFetch(tab)
            /\ UNCHANGED listings
    /\ loading' = FALSE
    /\ UNCHANGED <<tab, userLocation, locating, searchRadius, searchQuery,
                   selectedServiceType>>

\* LocationReported of a request that keeps reporting (watchPosition)
LocationWatched(lat, lng) ==
    /\ tab = "shops" /\ locating
    /\ UNCHANGED locating
    /\ userLocation' = [lat |-> lat, lng |-> lng]
    /\ UNCHANGED <<tab, listings, loading, fetchError, fetching, searchRadius,
                   searchQuery, selectedServiceType>>

\* ShopsTab: the success callback of getCurrentPosition
LocationReported(lat, lng) ==
    /\ tab = "shops" /\ locating
    /\ locating' = FALSE
    /\ userLocation' = [lat |-> lat, lng |-> lng]
    /\ UNCHANGED <<tab, listings, loading, fetchError, fetching, searchRadius,
                   searchQuery, selectedServiceType>>

\* ShopsTab: the error callback of getCurrentPosition
LocationFailed ==
    /\ tab = "shops" /\ locating
    /\ locating' = FALSE
    /\ userLocation' = [lat |-> DefaultLat, lng |-> DefaultLng]
    /\ UNCHANGED <<tab, listings, loading, fetchError, fetching, searchRadius,
                   searchQuery, selectedServiceType>>

\* ShopsTab: the range input, rendered once loading is over without an error
SetSearchRadius(km) ==
    /\ tab = "shops" /\ ~loading /\ fetchError = Null
    /\ km \in 1..50 /\ km # searchRadius
    /\ searchRadius' = km
    /\ UNCHANGED <<tab, listings, loading, fetchError, fetching, userLocation, locating,
                   searchQuery, selectedServiceType>>

----------------------------------------------------------------------------
(* SpecShopsTab: the shops tab on its own, from its mount.  The select call *)
(* answers with any list of at most MaxListed of the approved shops below. *)

\* no wizard is mounted
NoWizard ==
    /\ kind = NoForm /\ step = 1 /\ formData = <<>> /\ confirmed = FALSE
    /\ submitting = FALSE /\ submitted = FALSE /\ error = Null
    /\ pending = 0 /\ inserted = NoRow /\ geoPending = FALSE

TabOnly == UNCHANGED <<formVars, histVars, pageVars>>

Shop(id, place) == [id |-> id, lat |-> place[1], lng |-> place[2], status |-> "approved"]

ListedShops == {Shop("A", TokyoStation), Shop("B", Shinjuku), Shop("C", Shinjuku),
                Shop("D", Yokohama), Shop("E", Osaka)}

MaxListed == 4

\* the lists of distinct shops of length n
RECURSIVE ShopLists(_)
ShopLists(n) ==
    IF n = 0 THEN {<<>>}
    ELSE {Append(l, s) : l \in ShopLists(n - 1), s \in ListedShops}

DistinctIds(list) ==
    \A i \in 1..Len(list) : \A j \in 1..Len(list) : i # j => list[i].id # list[j].id

FetchedLists ==
    {l \in UNION {ShopLists(n) : n \in 0..MaxListed} : DistinctIds(l)}

\* lib/dummyData.ts: the listings shown when no client is configured
dummyShops == <<Shop("dummy-1", TokyoStation), Shop("dummy-2", Yokohama)>>

Radii == {1, 10, 50}

ShopsTabInit ==
    /\ user \in Users \cup {NoUser}
    /\ supabase \in {"client", Null}
    /\ \E capable \in BOOLEAN : TabIs(MountedTab("shops", supabase, dummyShops, capable))
    /\ NoWizard /\ NoHistory /\ NoPage

ShopsTabNext ==
    \/ \E data \in FetchedLists : FetchSettled("data", data) /\ TabOnly
    \/ \E outcome \in FetchOutcomes \ {"data"} : FetchSettled(outcome, <<>>) /\ TabOnly
    \/ \E p \in ReportedPoints : LocationReported(p[1], p[2]) /\ TabOnly
    \/ LocationFailed /\ TabOnly
    \/ \E km \in Radii : SetSearchRadius(km) /\ TabOnly

SpecShopsTab == ShopsTabInit /\ [][ShopsTabNext]_vars

\* the distance of the i-th listing from the reference coordinate
DistanceOf(i) ==
    calculateDistance(userLocation.lat, userLocation.lng, listings[i].lat, listings[i].lng)

\* the position in listings of the k-th entry of nearbyShops
SourceOf(k) == CHOOSE i \in 1..Len(listings) : listings[i].id = nearbyShops[k].id

\* C20: with a reference coordinate, nearbyShops holds exactly the listings
\* whose distance is at most the radius, each with its distance, in ascending
\* order of distance, and in their original order where distances are equal.
C20_NearbyFilter ==
    userLocation # NoLocation
    => /\ Len(nearbyShops)
            = Cardinality({i \in 1..Len(listings) : DistanceOf(i) <= Metres(searchRadius)})
       /\ \A k \in 1..Len(nearbyShops) :
             /\ \E i \in 1..Len(listings) : listings[i].id = nearbyShops[k].id
             /\ DistanceOf(SourceOf(k)) <= Metres(searchRadius)
             /\ nearbyShops[k].distance = DistanceOf(SourceOf(k))
             /\ \A f \in DOMAIN listings[SourceOf(k)] :
                   nearbyShops[k][f] = listings[SourceOf(k)][f]
       /\ \A k \in 1..Len(nearbyShops) : \A l \in 1..Len(nearbyShops) :
             k < l => \/ nearbyShops[k].distance < nearbyShops[l].distance
                      \/ /\ nearbyShops[k].distance = nearbyShops[l].distance
                         /\ SourceOf(k) < SourceOf(l)

C20_Witness ==
    /\ tab = "shops" /\ ~loading /\ searchRadius = 10
    /\ userLocation = [lat |-> DefaultLat, lng |-> DefaultLng]
    /\ Len(listings) = 4
    /\ listings[1].id = "D" /\ listings[2].id = "C"
    /\ listings[3].id = "B" /\ listings[4].id = "A"
    /\ Len(nearbyShops) = 3
    /\ nearbyShops[1].id = "A" /\ nearbyShops[2].id = "C" /\ nearbyShops[3].id = "B"
    /\ nearbyShops[2].distance = 6138

----------------------------------------------------------------------------
(* The page (app/page.tsx) and the external store.                         *)
(*                                                                         *)
(* The page renders one content at a time: a browse tab, a wizard (on a    *)
(* register tab with a user) or the login panel.  Switching mounts the new *)
(* content with fresh state and unmounts the old one, whose state is       *)
(* dropped; the calls it made stay outstanding.                            *)

Tabs == {"shops", "online", "register-shop", "register-online"}

\* the state of a wizard right after its mount; `capable` is the presence of
\* navigator.geolocation (the shop wizard requests the position on mount)
MountedForm(k, capable) ==
    [kind |-> k, step |-> 1, formData |-> initialFormData(k), confirmed |-> FALSE,
     submitting |-> FALSE, submitted |-> FALSE, error |-> Null, pending |-> 0,
     geoPending |-> k = "shop" /\ capable]

UnmountedForm ==
    [kind |-> NoForm, step |-> 1, formData |-> <<>>, confirmed |-> FALSE,
     submitting |-> FALSE, submitted |-> FALSE, error |-> Null, pending |-> 0,
     geoPending |-> FALSE]

UnmountedTab ==
    [tab |-> NoTab, listings |-> <<>>, loading |-> FALSE, fetchError |-> Null,
     fetching |-> FALSE, userLocation |-> NoLocation, locating |-> FALSE,
     searchRadius |-> 10, searchQuery |-> Empty, selectedServiceType |-> All]

\* lib/dummyData.ts
dummyOnlineMerchants ==
    <<[id |-> "dummy-3", name |-> <<"c", "a", "b">>, description |-> JsNull,
       service_type |-> <<"EC">>, tags |-> NullList, status |-> "approved"]>>

dummyData(t) == IF t = "shops" THEN dummyShops ELSE dummyOnlineMerchants

\* {activeTab === 'register-shop' && user && <ShopRegistrationForm />} ...
FormOf(t, u, capable) ==
    IF t = "register-shop" /\ u # NoUser THEN MountedForm("shop", capable)
    ELSE IF t = "register-online" /\ u # NoUser THEN MountedForm("merchant", capable)
    ELSE UnmountedForm

\* {activeTab === 'shops' && <ShopsTab />} {activeTab === 'online' && ...}
TabOf(t, client, capable) ==
    IF t \in {"shops", "online"} THEN MountedTab(t, client, dummyData(t), capable)
    ELSE UnmountedTab

FormIs(f) ==
    /\ kind = f.kind /\ step = f.step /\ formData = f.formData
    /\ confirmed = f.confirmed /\ submitting = f.submitting
    /\ submitted = f.submitted /\ error = f.error /\ pending = f.pending
    /\ geoPending = f.geoPending

FormBecomes(f) ==
    /\ kind' = f.kind /\ step' = f.step /\ formData' = f.formData
    /\ confirmed' = f.confirmed /\ submitting' = f.submitting
    /\ submitted' = f.submitted /\ error' = f.error /\ pending' = f.pending
    /\ geoPending' = f.geoPending

TabBecomes(m) ==
    /\ tab' = m.tab /\ listings' = m.listings /\ loading' = m.loading
    /\ fetchError' = m.fetchError /\ fetching' = m.fetching
    /\ userLocation' = m.userLocation /\ locating' = m.locating
    /\ searchRadius' = m.searchRadius /\ searchQuery' = m.searchQuery
    /\ selectedServiceType' = m.selectedServiceType

\* the tab buttons: setActiveTab(t)
SetActiveTab(t) ==
    /\ activeTab \in Tabs /\ t \in Tabs /\ t # activeTab
    /\ activeTab' = t
    /\ \E capable \in BOOLEAN :
          /\ FormBecomes(FormOf(t, user, capable))
          /\ TabBecomes(TabOf(t, supabase, capable))
    /\ orphaned' = orphaned \o calls
    /\ calls' = <<>>
    /\ inserted' = NoRow
    /\ UNCHANGED <<user, supabase, store, retreated>>

\* The auth context delivers another user value.  On a register tab the form
\* is rendered exactly while there is a user: it is mounted by a sign-in,
\* unmounted by a sign-out, and stays as it is when one user follows another.
PageAuthChange(u) ==
    /\ activeTab \in Tabs /\ u # user
    /\ user' = u
    /\ IF /\ activeTab \in {"register-shop", "register-online"}
          /\ (user = NoUser) # (u = NoUser)
       THEN /\ \E capable \in BOOLEAN : FormBecomes(FormOf(activeTab, u, capable))
            /\ orphaned' = orphaned \o calls
            /\ calls' = <<>>
       ELSE UNCHANGED <<kind, step, formData, confirmed, submitting, submitted,
                        error, pending, geoPending, orphaned, calls>>
    /\ inserted' = NoRow
    /\ UNCHANGED <<activeTab, supabase, store, retreated, tabVars>>

\* The external store.  A stored row is the inserted row with the id the
\* table gives it; `reviewed` records that the external administrative
\* process has set its status.
RowIds == <<"row-1", "row-2", "row-3", "row-4">>

StoredRows(s) == Len(s.shops) + Len(s.online_merchants)

Stored(row, id) ==
    [f \in DOMAIN row \cup {"id", "reviewed"} |->
        IF f = "id" THEN id ELSE IF f = "reviewed" THEN FALSE ELSE row[f]]

\* insert(row) taking effect
Commit(s, row) ==
    [s EXCEPT ![row.table] = Append(@, Stored(row, RowIds[StoredRows(s) + 1]))]

\* whether the insert took effect, given what the caller is told
TookEffect(outcome) ==
    IF outcome = "ok" THEN {TRUE} ELSE IF outcome = "error" THEN {FALSE} ELSE BOOLEAN

IsApproved(row) == row.status = "approved"

\* select('*') without .eq('status', 'approved')
Unfiltered(rows) == rows

\* select('*').eq('status', 'approved')
Approved(rows) == SelectSeq(rows, IsApproved)

TableOf(t) == IF t = "shops" THEN "shops" ELSE "online_merchants"

\* the external administrative process sets the status of a row
ExternalReview(t, i, status) ==
    /\ i \in 1..Len(store[t]) /\ store[t][i].status # status
    /\ store' = [store EXCEPT ![t][i] =
                    [f \in DOMAIN @ \cup {"reviewed"} |->
                        IF f = "status" THEN status
                        ELSE IF f = "reviewed" THEN TRUE ELSE @[f]]]
    /\ inserted' = NoRow
    /\ UNCHANGED <<kind, step, formData, confirmed, submitting, submitted, error,
                   user, supabase, pending, geoPending, retreated,
                   activeTab, calls, orphaned, tabVars>>

\* handleSubmit on the page: the row of a started call is outstanding
PageHandleSubmit ==
    /\ HandleSubmit
    /\ calls' = IF inserted' # NoRow THEN Append(calls, inserted') ELSE calls
    /\ UNCHANGED <<activeTab, orphaned, store, histVars, tabVars>>

\* the answer of an outstanding call of the mounted wizard
PageInsertSettled(outcome, stored) ==
    /\ calls # <<>>
    /\ InsertSettled(outcome)
    /\ calls' = Tail(calls)
    /\ store' = IF stored THEN Commit(store, Head(calls)) ELSE store
    /\ UNCHANGED <<activeTab, orphaned, histVars, tabVars>>

\* the sequence without its i-th element
RemoveAt(seq, i) == SubSeq(seq, 1, i - 1) \o SubSeq(seq, i + 1, Len(seq))

\* OrphanSettled running the continuation on the wizard that is mounted now
OrphanSettledOnMounted(i, outcome, stored) ==
    /\ i \in 1..Len(orphaned)
    /\ orphaned' = RemoveAt(orphaned, i)
    /\ store' = IF stored THEN Commit(store, orphaned[i]) ELSE store
    /\ IF kind # NoForm
       THEN /\ IF outcome = "ok"
               THEN submitted' = TRUE /\ UNCHANGED error
               ELSE error' = ErrSubmit /\ UNCHANGED submitted
            /\ submitting' = FALSE
       ELSE UNCHANGED <<submitted, error, submitting>>
    /\ inserted' = NoRow
    /\ UNCHANGED <<kind, step, formData, confirmed, user, supabase, pending,
                   geoPending, retreated, activeTab, calls, tabVars>>

\* The answer of the i-th outstanding call of the unmounted wizards: the
\* continuation of its handleSubmit sets the state of a component that is
\* gone.  Each call is answered on its own, in no order among the calls.
OrphanSettled(i, outcome, stored) ==
    /\ i \in 1..Len(orphaned)
    /\ orphaned' = RemoveAt(orphaned, i)
    /\ store' = IF stored THEN Commit(store, orphaned[i]) ELSE store
    /\ inserted' = NoRow
    /\ UNCHANGED <<kind, step, formData, confirmed, submitting, submitted, error,
                   user, supabase, pending, geoPending, retreated,
                   activeTab, calls, tabVars>>

----------------------------------------------------------------------------
(* SpecPage: the page from its first render, with the store.               *)

MaxRows == 2        \* rows stored or on their way to the store

PageOnly == UNCHANGED <<histVars, pageVars, tabVars>>

FormMounted == kind # NoForm

PageTyped(name) ==
    IF kind = "shop"
    THEN CASE name = "name" -> {Str("cafe")}
           [] name = "address" -> {Str("tokyo")}
           [] name = "category" -> {CATEGORIES[1]}
           [] name = "paymentMethod" -> {PAYMENT_METHODS[2]}
           [] OTHER -> {}
    ELSE CASE name = "name" -> {Str("mall")}
           [] name = "url" -> {Str("https://mall")}
           [] name = "serviceType" -> {SERVICE_TYPES[1]}
           [] name = "jpycUseCase" -> {MERCHANT_JPYC_USE_CASES[1]}
           [] OTHER -> {}

PageTicked(field) ==
    CASE field = "jpycUseCases" -> {JPYC_USE_CASES[1]}
      [] field = "networks" -> {NETWORKS[1]}
      [] field = "platforms" -> {PLATFORMS[1]}
      [] OTHER -> {}

\* the store holds one approved shop when the page opens
PageInit ==
    /\ activeTab = "shops"
    /\ user \in Users \cup {NoUser}
    /\ supabase \in {"client", Null}
    /\ FormIs(UnmountedForm)
    /\ inserted = NoRow
    /\ \E capable \in BOOLEAN : TabIs(TabOf("shops", supabase, capable))
    /\ calls = <<>> /\ orphaned = <<>>
    /\ store = [shops |-> <<Stored(Shop("A", TokyoStation), "row-1")>>,
                online_merchants |-> <<>>]
    /\ NoHistory

PageNext ==
    \/ \E t \in Tabs : SetActiveTab(t)
    \/ \E u \in Users \cup {NoUser} : PageAuthChange(u)
    \/ \E name \in InputNames : \E value \in PageTyped(name) :
           FormMounted /\ HandleInputChange(name, value) /\ PageOnly
    \/ \E field \in CheckboxFields : \E value \in PageTicked(field) :
           FormMounted /\ HandleCheckboxChange(field, value) /\ PageOnly
    \/ \E p \in ClickedPoints : FormMounted /\ HandleMapClick(p[1], p[2]) /\ PageOnly
    \/ \E p \in ReportedPoints : FormMounted /\ GeolocationSuccess(p[1], p[2]) /\ PageOnly
    \/ FormMounted /\ GeolocationError /\ PageOnly
    \/ \E checked \in BOOLEAN : FormMounted /\ SetConfirmed(checked) /\ PageOnly
    \/ FormMounted /\ NextStep /\ PageOnly
    \/ FormMounted /\ PrevStep /\ PageOnly
    \/ /\ FormMounted
       /\ StoredRows(store) + Len(calls) + Len(orphaned) < MaxRows
       /\ PageHandleSubmit
    \/ \E outcome \in InsertOutcomes : \E stored \in TookEffect(outcome) :
           FormMounted /\ PageInsertSettled(outcome, stored)
    \/ \E i \in 1..MaxRows : \E outcome \in InsertOutcomes :
           \E stored \in TookEffect(outcome) : OrphanSettled(i, outcome, stored)
    \/ FormMounted /\ ResetForm /\ PageOnly
    \/ \E t \in {"shops", "online_merchants"} : \E i \in 1..MaxRows :
           \E status \in {"approved", "rejected"} : ExternalReview(t, i, status)
    \/ FetchSettled("data", Approved(store[TableOf(tab)]))
           /\ UNCHANGED <<formVars, histVars, pageVars>>
    \/ \E outcome \in FetchOutcomes \ {"data"} :
           FetchSettled(outcome, <<>>) /\ UNCHANGED <<formVars, histVars, pageVars>>
    \/ \E p \in ReportedPoints :
           LocationReported(p[1], p[2]) /\ UNCHANGED <<formVars, histVars, pageVars>>
    \/ LocationFailed /\ UNCHANGED <<formVars, histVars, pageVars>>
    \/ \E km \in Radii : SetSearchRadius(km) /\ UNCHANGED <<formVars, histVars, pageVars>>

SpecPage == PageInit /\ [][PageNext]_vars

\* the row was inserted by a wizard
FromWizard(row) == "created_by" \in DOMAIN row

\* C11: every listing a browse tab holds, and every listing nearbyShops
\* derives from it, has status approved; a listing that a wizard inserted is
\* among them only after the external process has set its status; and while
\* a wizard is mounted no select call is outstanding and no list is held, so
\* no submission reads its row back.
C11_OnlyApprovedDisplayed ==
    /\ \A i \in 1..Len(listings) :
          /\ listings[i].status = "approved"
          /\ FromWizard(listings[i]) => listings[i].reviewed
    /\ tab = "shops" => \A k \in 1..Len(nearbyShops) : nearbyShops[k].status = "approved"
    /\ kind # NoForm => tab = NoTab /\ ~fetching /\ listings = <<>>

C11_Witness ==
    /\ tab = "shops" /\ ~loading /\ fetchError = Null
    /\ Len(listings) = 2 /\ FromWizard(listings[2])
    /\ listings[2].status = "approved" /\ listings[2].created_by = "u1"
    /\ Len(nearbyShops) = 2

\* C18: an outstanding insert call leaves the set of outstanding calls only
\* by being answered, so abandoning the wizard cancels nothing; and the
\* answer of a call made by an unmounted wizard changes no state of the
\* wizard that is mounted then.
C18_AbandonedCall ==
    [][/\ Len(calls') + Len(orphaned') < Len(calls) + Len(orphaned)
          => \E outcome \in InsertOutcomes : \E stored \in BOOLEAN :
                \/ PageInsertSettled(outcome, stored)
                \/ \E i \in 1..Len(orphaned) : OrphanSettled(i, outcome, stored)
       /\ (\E i \in 1..Len(orphaned) : \E outcome \in InsertOutcomes :
              \E stored \in BOOLEAN : OrphanSettled(i, outcome, stored))
          => UNCHANGED <<kind, step, formData, confirmed, error, submitting,
                         submitted>>]_vars

C18_Witness ==
    /\ orphaned # <<>> /\ kind = "merchant" /\ step = 3 /\ confirmed
    /\ Head(orphaned).table = "shops"
    /\ ~submitting /\ ~submitted /\ error = Null

----------------------------------------------------------------------------
(* SpecMerchantsTab: the online merchants tab on its own, from its mount.  *)
(* Names, descriptions, tags and the query are sequences of single         *)
(* characters over the letters a, b, c, their capitals and the space.      *)

\* String.prototype.toLowerCase, on one character
LowerChar(ch) ==
    CASE ch = "A" -> "a"
      [] ch = "B" -> "b"
      [] ch = "C" -> "c"
      [] OTHER -> ch

toLowerCase(s) == [i \in 1..Len(s) |-> LowerChar(s[i])]

\* String.prototype.includes
includes(s, q) == \E i \in 0..(Len(s) - Len(q)) : SubSeq(s, i + 1, i + Len(q)) = q

\* matchesSearch comparing the name, the description and the tags as they are
matchesSearchCaseSensitive(merchant, query) ==
    \/ query = Empty
    \/ includes(merchant.name, query)
    \/ /\ merchant.description # JsNull
       /\ includes(merchant.description, query)
    \/ /\ merchant.tags # NullList
       /\ \E i \in 1..Len(merchant.tags) : includes(merchant.tags[i], query)

\* !searchQuery || name... || description?. ... || tags?.some(...)
matchesSearch(merchant, query) ==
    \/ query = Empty
    \/ includes(toLowerCase(merchant.name), toLowerCase(query))
    \/ /\ merchant.description # JsNull
       /\ includes(toLowerCase(merchant.description), toLowerCase(query))
    \/ /\ merchant.tags # NullList
       /\ \E i \in 1..Len(merchant.tags) :
             includes(toLowerCase(merchant.tags[i]), toLowerCase(query))

\* selectedServiceType === 'all' || merchant.service_type === selectedServiceType
matchesType(merchant, type) == type = All \/ merchant.service_type = type

\* merchants.filter((merchant) => matchesSearch && matchesType)
RECURSIVE FilterMerchants(_, _, _)
FilterMerchants(list, query, type) ==
    IF list = <<>> THEN <<>>
    ELSE IF matchesSearch(Head(list), query) /\ matchesType(Head(list), type)
         THEN <<Head(list)>> \o FilterMerchants(Tail(list), query, type)
         ELSE FilterMerchants(Tail(list), query, type)

filteredMerchants == FilterMerchants(listings, searchQuery, selectedServiceType)

\* new Set(merchants.map((m) => m.service_type).filter(Boolean))
serviceTypes ==
    {listings[i].service_type : i \in 1..Len(listings)} \ {JsNull, Empty}

\* the keyword input, rendered once loading is over without an error
SetSearchQuery(value) ==
    /\ tab = "online" /\ ~loading /\ fetchError = Null
    /\ value # searchQuery
    /\ searchQuery' = value
    /\ UNCHANGED <<tab, listings, loading, fetchError, fetching, userLocation, locating,
                   searchRadius, selectedServiceType>>

\* the service type select: the option 'all' and one option per service type
SetSelectedServiceType(value) ==
    /\ tab = "online" /\ ~loading /\ fetchError = Null
    /\ value \in {All} \cup serviceTypes /\ value # selectedServiceType
    /\ selectedServiceType' = value
    /\ UNCHANGED <<tab, listings, loading, fetchError, fetching, userLocation, locating,
                   searchRadius, searchQuery>>

Merchant(id, name, description, type, tags) ==
    [id |-> id, name |-> name, description |-> description, service_type |-> type,
     tags |-> tags, status |-> "approved"]

ListedMerchants ==
    {Merchant("K", <<"A", "b">>, JsNull, Str("EC"), NullList),
     Merchant("L", <<"c">>, <<"c", " ", "a", "B">>, Str("EC"), <<>>),
     Merchant("M", <<"c", "a">>, JsNull, JsNull, <<<<"c">>, <<"B", "A", "b">>>>),
     Merchant("N", <<"b", "a">>, <<"c">>, Str("NFT"), NullList)}

MaxMerchants == 3

RECURSIVE MerchantLists(_)
MerchantLists(n) ==
    IF n = 0 THEN {<<>>}
    ELSE {Append(l, m) : l \in MerchantLists(n - 1), m \in ListedMerchants}

FetchedMerchants ==
    {l \in UNION {MerchantLists(n) : n \in 0..MaxMerchants} : DistinctIds(l)}

Queries == {Empty, <<"a">>, <<"A", "B">>, <<"C">>, <<" ">>, <<"b", "c">>}

ServiceTypes == {All, Str("EC"), Str("NFT")}

MerchantsTabInit ==
    /\ user \in Users \cup {NoUser}
    /\ supabase \in {"client", Null}
    /\ TabIs(MountedTab("online", supabase, dummyOnlineMerchants, FALSE))
    /\ NoWizard /\ NoHistory /\ NoPage

MerchantsTabNext ==
    \/ \E data \in FetchedMerchants : FetchSettled("data", data) /\ TabOnly
    \/ \E outcome \in FetchOutcomes \ {"data"} : FetchSettled(outcome, <<>>) /\ TabOnly
    \/ \E value \in Queries : SetSearchQuery(value) /\ TabOnly
    \/ \E value \in ServiceTypes : SetSelectedServiceType(value) /\ TabOnly

SpecMerchantsTab == MerchantsTabInit /\ [][MerchantsTabNext]_vars

\* the capital and the small form of one letter
CasePairs == {<<"A", "a">>, <<"B", "b">>, <<"C", "c">>}

SameLetter(x, y) == x = y \/ <<x, y>> \in CasePairs \/ <<y, x>> \in CasePairs

\* q occurs in s, letters compared without regard to case
OccursIn(q, s) ==
    \E i \in 0..(Len(s) - Len(q)) : \A j \in 1..Len(q) : SameLetter(s[i + j], q[j])

\* the merchant satisfies the query and the category of the tab
Matches(merchant) ==
    /\ \/ searchQuery = Empty
       \/ OccursIn(searchQuery, merchant.name)
       \/ merchant.description # JsNull /\ OccursIn(searchQuery, merchant.description)
       \/ /\ merchant.tags # NullList
          /\ \E i \in 1..Len(merchant.tags) : OccursIn(searchQuery, merchant.tags[i])
    /\ selectedServiceType = All \/ merchant.service_type = selectedServiceType

\* C21: the filtered list is exactly the subsequence, in input order, of the
\* merchants that match the query (empty, or a case-insensitive substring of
\* the name, the description when present or a tag when present) and the
\* category ('all' or equal to service_type); with the empty query and the
\* category 'all' it is the input list.
C21_KeywordFilter ==
    tab = "online"
    => /\ filteredMerchants = SelectSeq(listings, Matches)
       /\ searchQuery = Empty /\ selectedServiceType = All
            => filteredMerchants = listings

C21_Witness ==
    /\ tab = "online" /\ ~loading /\ fetchError = Null
    /\ searchQuery = <<"A", "B">> /\ selectedServiceType = Str("EC")
    /\ Len(listings) = 3
    /\ listings[1].id = "M" /\ listings[2].id = "L" /\ listings[3].id = "K"
    /\ Len(filteredMerchants) = 2
    /\ filteredMerchants[1].id = "L" /\ filteredMerchants[2].id = "K"

----------------------------------------------------------------------------
(* The geolocation request of the shops tab.                               *)

\* Tokyo Station, lat 35.6812, lng 139.7671
Fallback == [lat |-> 356812, lng |-> 1397671]

\* a callback of the geolocation request runs
LocationAnswered ==
    \/ \E p \in ReportedPoints : LocationReported(p[1], p[2])
    \/ LocationFailed

\* C22: in a mount of the shops tab without the geolocation capability the
\* user location is the fallback from the start; otherwise it is unset while
\* the request is outstanding, is assigned only by the answer of the request
\* (the reported coordinate on success, the fallback on failure), after which
\* no request is outstanding and the location never changes again.
C22_OneShotLocation ==
    /\ tab = "shops" /\ ~locating => userLocation = Fallback
    /\ [][/\ locating => userLocation = NoLocation
          /\ userLocation' # userLocation => locating /\ LocationAnswered
          /\ LocationAnswered => ~locating' /\ userLocation' # NoLocation
          /\ \A p \in ReportedPoints :
                LocationReported(p[1], p[2]) => userLocation' = [lat |-> p[1], lng |-> p[2]]
          /\ LocationFailed => userLocation' = Fallback
          /\ ~locating => ~locating' /\ userLocation' = userLocation]_vars

C22_Witness ==
    /\ tab = "shops" /\ ~locating /\ ~loading
    /\ userLocation = [lat |-> 356900, lng |-> 1397000]

----------------------------------------------------------------------------
(* The listing fetch of the browse tabs, on the page.                      *)

\* the select call of the mounted tab is answered with a failure
FetchFailed == \E outcome \in {"error", "throw"} : FetchSettled(outcome, <<>>)

\* the select call of the mounted tab is answered with no rows
FetchedNothing == FetchSettled("data", <<>>) \/ FetchSettled("null", <<>>)

\* C23: in either browse tab a failed fetch sets the tab's generic message,
\* leaves the listing set empty and ends loading; a fetch answered with zero
\* rows leaves the listing set empty, ends loading and sets no error; and no
\* tab ever holds listings together with an error.
C23_FetchOutcome ==
    /\ [](fetchError # Null => listings = <<>> /\ ~loading)
    /\ [][/\ FetchFailed
             => /\ tab = "shops" => fetchError' = "tenpo-data-shutoku-shippai"
                /\ tab = "online" => fetchError' = "online-jigyousha-data-shutoku-shippai"
                /\ listings' = <<>> /\ ~loading'
          /\ FetchedNothing
             => listings' = <<>> /\ ~loading' /\ fetchError' = Null]_vars

C23_Witness ==
    /\ tab = "online" /\ supabase = "client" /\ ~fetching
    /\ fetchError = "online-jigyousha-data-shutoku-shippai"
    /\ listings = <<>> /\ ~loading

----------------------------------------------------------------------------
(* The draft at the confirmation step.                                     *)

\* C24: at step 3 the draft passes the validation of step 1 and of step 2;
\* and the row passed to insert has a non-blank name, a non-blank address
\* (shop) or URL (merchant) and a selected category or service type.
C24_ValidAtConfirm ==
    /\ step = 3 => /\ validateStep1(kind, formData) = Null
                   /\ validateStep2(kind, formData) = Null
    /\ inserted # NoRow
       => /\ NonBlank(inserted.name)
          /\ inserted.table = "shops"
             => NonBlank(inserted.address) /\ inserted.tags[1] # Empty
          /\ inserted.table = "online_merchants"
             => NonBlank(inserted.url) /\ inserted.service_type # Empty

\* a shop draft with a padded name is submitted from step 3
C24_Witness ==
    /\ kind = "shop" /\ step = 3 /\ inserted # NoRow
    /\ inserted.name = Str("cafe-a") /\ formData.name = Padded("cafe-a")
    /\ inserted.address = Str("tokyo")
    /\ formData.twitter = Str("@shop")

\* C25: every row passed to insert carries at least one entry in the list
\* that the validation of step 2 required: jpyc_networks for a shop,
\* platforms for a merchant.
C25_RequiredListNonEmpty ==
    inserted # NoRow
    => /\ inserted.table = "shops" => Len(inserted.jpyc_networks) > 0
       /\ inserted.table = "online_merchants" => Len(inserted.platforms) > 0

----------------------------------------------------------------------------
(* The submission in flight.                                               *)

\* C26: while a submission is in flight the step is 3 and stays 3, and the
\* draft does not change.
C26_FrozenWhileSubmitting ==
    [][submitting /\ submitting'
       => step = 3 /\ step' = 3 /\ formData' = formData]_vars

\* C27: at most one insert call of the wizard is outstanding; while one is,
\* submitting is true, and while submitting is true the submit action is
\* disabled, so that an insert call starts only when none is outstanding.
C27_OneOutstandingInsert ==
    /\ [](pending <= 1 /\ (pending > 0 => submitting)
          /\ (submitting => ~ENABLED HandleSubmit))
    /\ [][inserted' # NoRow => pending = 0 /\ pending' = 1]_vars

\* an insert is outstanding at step 3, where the submit button is rendered
C27_Witness ==
    /\ pending = 1 /\ submitting /\ step = 3 /\ confirmed /\ inserted = NoRow
    /\ user # NoUser /\ supabase = "client" /\ ~submitted

----------------------------------------------------------------------------
(* The fields of the shop draft that the row leaves out.                   *)

UseCaseVariants == {<<>>, <<JPYC_USE_CASES[1]>>, <<JPYC_USE_CASES[2], SONOTA>>}
TextVariants == {Empty, Blank, Str("goods"), Padded("@shop")}

\* the drafts that differ from fd at most in the four fields
Variants(fd) ==
    {[fd EXCEPT !.jpycUseCases = uc, !.jpycUseCaseOther = other,
                !.twitter = tw, !.note = nt] :
        uc \in UseCaseVariants, other \in TextVariants,
        tw \in TextVariants, nt \in TextVariants}

\* C28: the row the shop wizard passes to insert is the row that every draft
\* differing from the submitted one only in jpycUseCases, jpycUseCaseOther,
\* twitter and note yields for the same user.
C28_RowIgnoresUseCases ==
    inserted # NoRow /\ kind = "shop"
    => \A fd \in Variants(formData) : InsertRow("shop", fd, user) = inserted

C28_Witness ==
    /\ inserted # NoRow /\ kind = "shop"
    /\ formData.jpycUseCases # <<>> /\ formData.jpycUseCaseOther = Str("goods")
    /\ formData.twitter = Str("@shop")

----------------------------------------------------------------------------
(* SpecPick: the shop wizard from its mount, with the user picking the     *)
(* coordinate on the map at places the geolocation source does not report. *)

PickedPoints == {Shinjuku, Yokohama}
SensedPoints == {Osaka}

PickInit ==
    /\ kind = "shop"
    /\ step = 1
    /\ formData = initialFormData("shop")
    /\ confirmed = FALSE
    /\ submitting = FALSE
    /\ submitted = FALSE
    /\ error = Null
    /\ user \in Users
    /\ supabase = "client"
    /\ pending = 0
    /\ inserted = NoRow
    /\ geoPending \in BOOLEAN
    /\ NoHistory /\ NoPage /\ NoBrowseTab

PickNext ==
    \/ \E p \in PickedPoints : HandleMapClick(p[1], p[2]) /\ FormOnly
    \/ \E p \in SensedPoints : GeolocationSuccess(p[1], p[2]) /\ FormOnly
    \/ GeolocationError /\ FormOnly
    \/ \E name \in InputNames : \E value \in PageTyped(name) :
           HandleInputChange(name, value) /\ FormOnly
    \/ \E field \in CheckboxFields : \E value \in PageTicked(field) :
           HandleCheckboxChange(field, value) /\ FormOnly
    \/ \E checked \in BOOLEAN : SetConfirmed(checked) /\ FormOnly
    \/ NextStep /\ FormOnly
    \/ PrevStep /\ FormOnly
    \/ HandleSubmit /\ FormOnly
    \/ \E outcome \in InsertOutcomes : InsertSettled(outcome) /\ FormOnly
    \/ ResetForm /\ FormOnly

SpecPick == PickInit /\ [][PickNext]_vars

\* the coordinate of the draft
Coordinate(fd) == <<fd.lat, fd.lng>>

\* C29: a coordinate that the user picked on the map changes only by another
\* map click or by the reset.
C29_PickedCoordinateKept ==
    [][Coordinate(formData) \in PickedPoints /\ Coordinate(formData') # Coordinate(formData)
       => \/ \E p \in PickedPoints : HandleMapClick(p[1], p[2])
          \/ ResetForm]_vars

----------------------------------------------------------------------------
(* The list the shops tab displays.                                        *)

\* the tab renders the list: neither the spinner nor the error message
ListDisplayed == tab = "shops" /\ ~loading /\ fetchError = Null

\* C30: whenever the shop list is displayed, every listing in it carries its
\* distance from the reference coordinate, and that distance is at most the
\* search radius.
C30_DisplayedWithinRadius ==
    ListDisplayed
    => \A k \in 1..Len(nearbyShops) :
          /\ userLocation # NoLocation
          /\ "distance" \in DOMAIN nearbyShops[k]
          /\ nearbyShops[k].distance
                = calculateDistance(userLocation.lat, userLocation.lng,
                                    nearbyShops[k].lat, nearbyShops[k].lng)
          /\ nearbyShops[k].distance <= Metres(searchRadius)

====
